---- MODULE Spec2Model ----
(***************************************************************************)
(* Cadence scheduling and backup orchestration engine of the DatoCMS       *)
(* automatic environment backups service (services/backupService.ts).      *)
(*                                                                         *)
(* Instants are counted in clock ticks (TicksPerDay ticks per UTC day,     *)
(* tick 0 is 00:00 UTC of EpochDate).  A date key "YYYY-MM-DD" is the      *)
(* record [year, month, day]; a timezone is its offset from UTC in ticks.  *)
(***************************************************************************)
EXTENDS Integers, Sequences, FiniteSets, TLC

(***************************************************************************)
(* Bounds of the model.                                                    *)
(***************************************************************************)
\* last clock tick of a behaviour
MaxTick == 2
\* faults of a behaviour: remote calls that fail in transport (network, auth,
\* rate limit) and invocations the host cuts short
MaxFaults == 1
\* invocations of a behaviour
MaxRuns == 3
\* invocations of a behaviour in which no remote call fails in transport
MaxRaceRuns == 4
\* invocations of a behaviour of a deployment in any condition
MaxAnyRuns == 2
\* days after the first anchor date from which the pure functions draw dates
MaxProbeDays == 15

\* days before and after the anchor on which the next due date is asked for
MaxDaysBefore == 40

MaxDaysAfter == 70

\* hours after 2026-02-26T00:00Z at which a slot-based run is made
MaxSlotHour == 167

(***************************************************************************)
(* Calendar primitives.                                                    *)
(***************************************************************************)
\* ticks per UTC day: a tick is 12 hours
TicksPerDay == 2

\* date key of clock tick 0 (00:00 UTC)
EpochDate == [year |-> 2026, month |-> 2, day |-> 27]

BACKUP_CADENCES == <<"daily", "weekly", "biweekly", "monthly">>

Cadences == {"daily", "weekly", "biweekly", "monthly"}

Range(s) == {s[i] : i \in DOMAIN s}

Min(a, b) == IF a < b THEN a ELSE b

\* Array.prototype.filter over a sequence, order kept
RECURSIVE FilterSeq(_, _)
FilterSeq(s, keep) ==
  IF s = <<>> THEN <<>>
  ELSE IF Head(s) \in keep THEN <<Head(s)>> \o FilterSeq(Tail(s), keep)
       ELSE FilterSeq(Tail(s), keep)

IsLeapYear(y) == (y % 4 = 0 /\ y % 100 # 0) \/ y % 400 = 0

\* Date.UTC(y, m - 1, d) in whole days since 1970-01-01 (proleptic Gregorian)
DaysFromCivil(y, m, d) ==
  LET yy  == IF m <= 2 THEN y - 1 ELSE y
      era == yy \div 400
      yoe == yy - era * 400
      mp  == IF m > 2 THEN m - 3 ELSE m + 9
      doy == (153 * mp + 2) \div 5 + d - 1
      doe == yoe * 365 + yoe \div 4 - yoe \div 100 + doy
  IN era * 146097 + doe - 719468

\* getUTCFullYear / getUTCMonth + 1 / getUTCDate of a day number
CivilFromDays(n) ==
  LET z   == n + 719468
      era == z \div 146097
      doe == z - era * 146097
      yoe == (doe - doe \div 1460 + doe \div 36524 - doe \div 146096) \div 365
      doy == doe - (365 * yoe + yoe \div 4 - yoe \div 100)
      mp  == (5 * doy + 2) \div 153
      d   == doy - (153 * mp + 2) \div 5 + 1
      m   == IF mp < 10 THEN mp + 3 ELSE mp - 9
      y   == yoe + era * 400 + (IF m <= 2 THEN 1 ELSE 0)
  IN [year |-> y, month |-> m, day |-> d]

\* new Date(Date.UTC(year, month, 0)).getUTCDate(): the last day of the month
\* getDaysInMonth with a February of 28 days in every year
getDaysInMonth_NoLeap(year, month) ==
  LET idx == month - 1
      m   == (idx % 12) + 1
  IN IF m = 2 THEN 28 ELSE IF m \in {4, 6, 9, 11} THEN 30 ELSE 31

getDaysInMonth(year, month) ==
  LET idx == month - 1
      y   == year + idx \div 12
      m   == (idx % 12) + 1
  IN IF m = 2 THEN (IF IsLeapYear(y) THEN 29 ELSE 28)
     ELSE IF m \in {4, 6, 9, 11} THEN 30 ELSE 31

\* parseLocalDateKey(value) # null, for a key that matches DATE_KEY_PATTERN
parseLocalDateKey(k) ==
  /\ k.year # 0 /\ k.month # 0 /\ k.day # 0
  /\ k.month >= 1 /\ k.month <= 12
  /\ k.day >= 1 /\ k.day <= getDaysInMonth(k.year, k.month)

\* compareDateKeys: string order of zero-padded YYYY-MM-DD keys
compareDateKeys(l, r) ==
  LET lv == l.year * 10000 + l.month * 100 + l.day
      rv == r.year * 10000 + r.month * 100 + r.day
  IN IF lv < rv THEN -1 ELSE IF lv > rv THEN 1 ELSE 0

buildUtcDateFromLocalParts(p) == DaysFromCivil(p.year, p.month, p.day)

\* getDayDiff counting every month as thirty days
getDayDiff_ThirtyDayMonths(startKey, endKey) ==
  IF ~parseLocalDateKey(startKey) \/ ~parseLocalDateKey(endKey) THEN 0
  ELSE (endKey.year * 360 + endKey.month * 30 + endKey.day)
         - (startKey.year * 360 + startKey.month * 30 + startKey.day)

getDayDiff(startKey, endKey) ==
  IF ~parseLocalDateKey(startKey) \/ ~parseLocalDateKey(endKey) THEN 0
  ELSE buildUtcDateFromLocalParts(endKey) - buildUtcDateFromLocalParts(startKey)

\* the instant of a clock tick, in whole UTC days since 1970-01-01 after a
\* shift of tz ticks
DayOfTick(t, tz) ==
  buildUtcDateFromLocalParts(EpochDate) + ((t + tz) \div TicksPerDay)

\* Intl.DateTimeFormat("en-CA", {timeZone}) parts of an instant
toLocalDateParts(t, tz) == CivilFromDays(DayOfTick(t, tz))

toLocalDateKey(t, tz) == toLocalDateParts(t, tz)

\* now.toISOString().split("T")[0]
\* the date suffix taken in a timezone behind UTC instead of UTC
getDateSuffix_Local(t) == toLocalDateKey(t, 0 - 1)

getDateSuffix(t) == CivilFromDays(DayOfTick(t, 0))

\* addDaysToDateKey, of a key that parses
addDaysToDateKey(dateKey, dayDelta) ==
  IF ~parseLocalDateKey(dateKey) THEN dateKey
  ELSE CivilFromDays(buildUtcDateFromLocalParts(dateKey) + dayDelta)

addMonthsToDateKey(dateKey, monthDelta) ==
  IF ~parseLocalDateKey(dateKey) THEN dateKey
  ELSE LET rawMonthIndex == dateKey.month - 1 + monthDelta
           year          == dateKey.year + rawMonthIndex \div 12
           monthIndex    == ((rawMonthIndex % 12) + 12) % 12
           month         == monthIndex + 1
       IN [year  |-> year,
           month |-> month,
           day   |-> Min(dateKey.day, getDaysInMonth(year, month))]

(***************************************************************************)
(* Cadence due-date computation.                                           *)
(***************************************************************************)
\* the absent date key (undefined)
NoDate == [year |-> 0, month |-> 0, day |-> 0]

\* the absent ISO week key (undefined)
NoWeek == [year |-> 0, week |-> 0]

\* the absent instant (undefined)
NoInstant == -1

\* getUTCDay() of a day number: 1970-01-01 was a Thursday
UtcWeekday(n) == (n + 4) % 7

toUtcIsoWeekKey(t) ==
  LET n       == DayOfTick(t, 0)
      day     == IF UtcWeekday(n) = 0 THEN 7 ELSE UtcWeekday(n)
      working == n + 4 - day
      wy      == CivilFromDays(working).year
      start   == DaysFromCivil(wy, 1, 1)
      weekNo  == ((working - start) + 1 + 6) \div 7
  IN [year |-> wy, week |-> weekNo]

\* getLastRunLocalDateForCadence looking at the legacy fields before the map
getLastRunLocalDateForCadence_LegacyFirst(scheduleState, cadence, t, tz) ==
  LET map == scheduleState.lastRunLocalDateByCadence
  IN IF /\ cadence = "daily"
        /\ scheduleState.dailyLastRunDate # NoDate
        /\ parseLocalDateKey(scheduleState.dailyLastRunDate)
       THEN scheduleState.dailyLastRunDate
     ELSE IF /\ cadence = "weekly"
             /\ scheduleState.weeklyLastRunKey # NoWeek
             /\ scheduleState.weeklyLastRunKey = toUtcIsoWeekKey(t)
       THEN toLocalDateKey(t, tz)
     ELSE IF cadence \in DOMAIN map /\ parseLocalDateKey(map[cadence])
       THEN map[cadence]
     ELSE NoDate

getLastRunLocalDateForCadence(scheduleState, cadence, t, tz) ==
  LET map == scheduleState.lastRunLocalDateByCadence
  IN IF cadence \in DOMAIN map /\ parseLocalDateKey(map[cadence])
       THEN map[cadence]
     ELSE IF /\ cadence = "daily"
             /\ scheduleState.dailyLastRunDate # NoDate
             /\ parseLocalDateKey(scheduleState.dailyLastRunDate)
       THEN scheduleState.dailyLastRunDate
     ELSE IF /\ cadence = "weekly"
             /\ scheduleState.weeklyLastRunKey # NoWeek
             /\ scheduleState.weeklyLastRunKey = toUtcIsoWeekKey(t)
       THEN toLocalDateKey(t, tz)
     ELSE NoDate

\* isCadenceScheduledOnDate answering for the daily cadence before it compares
\* the date with the anchor
isCadenceScheduledOnDate_DailyFirst(cadence, anchorLocalDate, localDate) ==
  IF cadence = "daily" THEN TRUE
  ELSE IF ~parseLocalDateKey(anchorLocalDate) \/ ~parseLocalDateKey(localDate)
    THEN FALSE
  ELSE IF compareDateKeys(localDate, anchorLocalDate) < 0 THEN FALSE
  ELSE IF cadence \in {"weekly", "biweekly"}
    THEN LET interval == IF cadence = "weekly" THEN 7 ELSE 14
             diffDays == getDayDiff(anchorLocalDate, localDate)
         IN diffDays >= 0 /\ diffDays % interval = 0
  ELSE LET dueDay == Min(anchorLocalDate.day,
                         getDaysInMonth(localDate.year, localDate.month))
       IN localDate.day = dueDay

isCadenceScheduledOnDate(cadence, anchorLocalDate, localDate) ==
  IF ~parseLocalDateKey(anchorLocalDate) \/ ~parseLocalDateKey(localDate)
    THEN cadence = "daily"
  ELSE IF compareDateKeys(localDate, anchorLocalDate) < 0 THEN FALSE
  ELSE IF cadence = "daily" THEN TRUE
  ELSE IF cadence \in {"weekly", "biweekly"}
    THEN LET interval == IF cadence = "weekly" THEN 7 ELSE 14
             diffDays == getDayDiff(anchorLocalDate, localDate)
         IN diffDays >= 0 /\ diffDays % interval = 0
  ELSE LET dueDay == Min(anchorLocalDate.day,
                         getDaysInMonth(localDate.year, localDate.month))
       IN localDate.day = dueDay

\* isCadenceDueNow without the comparison of the last run with the current date
isCadenceDueNow_NoGuard(cadence, anchorLocalDate, currentLocalDate, lastRunLocalDate) ==
  isCadenceScheduledOnDate(cadence, anchorLocalDate, currentLocalDate)

\* isCadenceDueNow taking any last run up to the current date for a run today
isCadenceDueNow_UpToToday(cadence, anchorLocalDate, currentLocalDate, lastRunLocalDate) ==
  IF /\ lastRunLocalDate # NoDate
     /\ compareDateKeys(lastRunLocalDate, currentLocalDate) <= 0
    THEN FALSE
  ELSE isCadenceScheduledOnDate(cadence, anchorLocalDate, currentLocalDate)

\* isCadenceDueNow catching up a cadence that has no run on record
isCadenceDueNow_CatchUp(cadence, anchorLocalDate, currentLocalDate, lastRunLocalDate) ==
  IF /\ lastRunLocalDate # NoDate
     /\ compareDateKeys(lastRunLocalDate, currentLocalDate) = 0
    THEN FALSE
  ELSE \/ isCadenceScheduledOnDate(cadence, anchorLocalDate, currentLocalDate)
       \/ /\ lastRunLocalDate = NoDate
          /\ compareDateKeys(currentLocalDate, anchorLocalDate) >= 0

isCadenceDueNow(cadence, anchorLocalDate, currentLocalDate, lastRunLocalDate) ==
  IF /\ lastRunLocalDate # NoDate
     /\ compareDateKeys(lastRunLocalDate, currentLocalDate) = 0
    THEN FALSE
  ELSE isCadenceScheduledOnDate(cadence, anchorLocalDate, currentLocalDate)

\* getNextDueLocalDate taking no account of a run on the current date
getNextDueLocalDate_IgnoresLastRun(cadence, anchorLocalDate, currentLocalDate, lastRunLocalDate) ==
  LET alreadyRanToday == FALSE
  IN IF ~alreadyRanToday
          /\ isCadenceScheduledOnDate(cadence, anchorLocalDate, currentLocalDate)
       THEN currentLocalDate
     ELSE IF cadence = "daily" THEN addDaysToDateKey(currentLocalDate, 1)
     ELSE IF cadence \in {"weekly", "biweekly"}
       THEN LET interval  == IF cadence = "weekly" THEN 7 ELSE 14
                diffDays  == getDayDiff(anchorLocalDate, currentLocalDate)
                remainder == diffDays % interval
                offset    == IF remainder = 0 THEN interval ELSE interval - remainder
            IN IF diffDays < 0 THEN anchorLocalDate
               ELSE addDaysToDateKey(currentLocalDate, offset)
     ELSE IF ~parseLocalDateKey(currentLocalDate) \/ ~parseLocalDateKey(anchorLocalDate)
       THEN currentLocalDate
     ELSE LET dueThisMonth ==
                [year  |-> currentLocalDate.year,
                 month |-> currentLocalDate.month,
                 day   |-> Min(anchorLocalDate.day,
                               getDaysInMonth(currentLocalDate.year,
                                              currentLocalDate.month))]
              firstOfCurrentMonth == [currentLocalDate EXCEPT !.day = 1]
              nextMonthParts      == addMonthsToDateKey(firstOfCurrentMonth, 1)
          IN IF \/ compareDateKeys(dueThisMonth, currentLocalDate) > 0
                \/ /\ compareDateKeys(dueThisMonth, currentLocalDate) = 0
                   /\ ~alreadyRanToday
               THEN dueThisMonth
             ELSE IF ~parseLocalDateKey(nextMonthParts) THEN nextMonthParts
             ELSE [year  |-> nextMonthParts.year,
                   month |-> nextMonthParts.month,
                   day   |-> Min(anchorLocalDate.day,
                                 getDaysInMonth(nextMonthParts.year,
                                                nextMonthParts.month))]

getNextDueLocalDate(cadence, anchorLocalDate, currentLocalDate, lastRunLocalDate) ==
  LET alreadyRanToday ==
        /\ lastRunLocalDate # NoDate
        /\ compareDateKeys(lastRunLocalDate, currentLocalDate) = 0
  IN IF ~alreadyRanToday
          /\ isCadenceScheduledOnDate(cadence, anchorLocalDate, currentLocalDate)
       THEN currentLocalDate
     ELSE IF cadence = "daily" THEN addDaysToDateKey(currentLocalDate, 1)
     ELSE IF cadence \in {"weekly", "biweekly"}
       THEN LET interval  == IF cadence = "weekly" THEN 7 ELSE 14
                diffDays  == getDayDiff(anchorLocalDate, currentLocalDate)
                remainder == diffDays % interval
                offset    == IF remainder = 0 THEN interval ELSE interval - remainder
            IN IF diffDays < 0 THEN anchorLocalDate
               ELSE addDaysToDateKey(currentLocalDate, offset)
     ELSE IF ~parseLocalDateKey(currentLocalDate) \/ ~parseLocalDateKey(anchorLocalDate)
       THEN currentLocalDate
     ELSE LET dueThisMonth ==
                [year  |-> currentLocalDate.year,
                 month |-> currentLocalDate.month,
                 day   |-> Min(anchorLocalDate.day,
                               getDaysInMonth(currentLocalDate.year,
                                              currentLocalDate.month))]
              firstOfCurrentMonth == [currentLocalDate EXCEPT !.day = 1]
              nextMonthParts      == addMonthsToDateKey(firstOfCurrentMonth, 1)
          IN IF \/ compareDateKeys(dueThisMonth, currentLocalDate) > 0
                \/ /\ compareDateKeys(dueThisMonth, currentLocalDate) = 0
                   /\ ~alreadyRanToday
               THEN dueThisMonth
             ELSE IF ~parseLocalDateKey(nextMonthParts) THEN nextMonthParts
             ELSE [year  |-> nextMonthParts.year,
                   month |-> nextMonthParts.month,
                   day   |-> Min(anchorLocalDate.day,
                                 getDaysInMonth(nextMonthParts.year,
                                                nextMonthParts.month))]

(***************************************************************************)
(* Remote environments and the persisted plugin parameters.                *)
(***************************************************************************)
\* `${prefix}-${suffix}`: an environment id is kept as its two parts
EnvId(prefix, suffix) == [prefix |-> prefix, suffix |-> suffix]

\* id of the primary environment
MainEnvId == EnvId("main", NoDate)

\* the absent environment id (null / undefined)
NoEnvId == EnvId("", NoDate)

getEnvironmentPrefix(scope) ==
  CASE scope = "daily"    -> "backup-plugin-daily"
    [] scope = "weekly"   -> "backup-plugin-weekly"
    [] scope = "biweekly" -> "backup-plugin-biweekly"
    [] scope = "monthly"  -> "backup-plugin-monthly"

\* environment.id.startsWith(`${prefix}-`)
StartsWithPrefix(id, prefix) == id.prefix = prefix

EnvIds(envs) == {envs[j].id : j \in DOMAIN envs}

\* the empty Partial<Record<BackupCadence, ...>>
EmptyMap == <<>>

MapSet(map, c, v) == [x \in (DOMAIN map) \cup {c} |-> IF x = c THEN v ELSE map[x]]

MapDelete(map, c) == [x \in (DOMAIN map) \ {c} |-> map[x]]

\* toScheduleState(undefined): the State of a deployment that never ran
EmptyScheduleState ==
  [lastRunLocalDateByCadence         |-> EmptyMap,
   lastRunAtByCadence                |-> EmptyMap,
   lastManagedEnvironmentIdByCadence |-> EmptyMap,
   lastExecutionModeByCadence        |-> EmptyMap,
   lastErrorByCadence                |-> EmptyMap,
   dailyLastRunDate                  |-> NoDate,
   weeklyLastRunKey                  |-> NoWeek,
   lastDailyRunAt                    |-> NoInstant,
   lastWeeklyRunAt                   |-> NoInstant,
   lastDailyManagedEnvironmentId     |-> NoEnvId,
   lastWeeklyManagedEnvironmentId    |-> NoEnvId,
   lastDailyExecutionMode            |-> "",
   lastWeeklyExecutionMode           |-> "",
   lastDailyError                    |-> "",
   lastWeeklyError                   |-> ""]

DEFAULT_ENABLED_CADENCES == <<"daily", "weekly">>

\* offset of DEFAULT_TIMEZONE ("UTC") in ticks
DEFAULT_TIMEZONE == 0

BACKUP_SCHEDULE_VERSION == 1

\* the zones Intl.DateTimeFormat accepts, by their offset in ticks
ValidTimezones == {0 - 1, 0}

\* a non-empty timezone string that Intl.DateTimeFormat rejects
InvalidTimezone == 99

\* a cadence name that is no BackupCadence
InvalidCadence == "hourly"

\* a plugin parameter that is not an object (undefined, null, a string)
NotAnObject == [notAnObject |-> TRUE]

isObject(value) == "notAnObject" \notin DOMAIN value

\* value[field] as an unknown: <<>> when the field is absent, <<v>> otherwise
Field(value, field) == IF field \in DOMAIN value THEN <<value[field]>> ELSE <<>>

isValidTimezone(value) == value \in ValidTimezones

\* ensureTimezone; `value` is an unknown
\* ensureTimezone going to the default timezone without trying the fallback
ensureTimezone_NoFallback(value, fallback) ==
  IF Len(value) = 1 /\ isValidTimezone(value[1]) THEN value[1] ELSE DEFAULT_TIMEZONE

ensureTimezone(value, fallback) ==
  IF Len(value) = 1 /\ isValidTimezone(value[1]) THEN value[1]
  ELSE IF isValidTimezone(fallback) THEN fallback
  ELSE DEFAULT_TIMEZONE

isBackupCadence(value) == value \in Range(BACKUP_CADENCES)

\* normalizeCadences keeping the valid entries as they are listed
normalizeCadences_AsListed(value) ==
  IF Len(value) = 0 THEN DEFAULT_ENABLED_CADENCES
  ELSE LET selected == {entry \in Range(value[1]) : isBackupCadence(entry)}
       IN IF Cardinality(selected) = 0 THEN DEFAULT_ENABLED_CADENCES
          ELSE FilterSeq(value[1], selected)

\* normalizeCadences; `value` is an unknown holding a list of names when it
\* is an array
normalizeCadences(value) ==
  IF Len(value) = 0 THEN DEFAULT_ENABLED_CADENCES
  ELSE LET selected == {entry \in Range(value[1]) : isBackupCadence(entry)}
       IN IF Cardinality(selected) = 0 THEN DEFAULT_ENABLED_CADENCES
          ELSE FilterSeq(BACKUP_CADENCES, selected)

\* normalizeBackupScheduleConfig({value: undefined, timezoneFallback, now})
DefaultScheduleConfig(t, fallbackTimezone) ==
  [version         |-> BACKUP_SCHEDULE_VERSION,
   enabledCadences |-> DEFAULT_ENABLED_CADENCES,
   timezone        |-> fallbackTimezone,
   anchorLocalDate |-> toLocalDateKey(t, fallbackTimezone),
   updatedAt       |-> t]

\* normalizeBackupScheduleConfig stamping every result with the instant of the
\* call
normalizeBackupScheduleConfig_Restamped(value, timezoneFallback, t) ==
  LET fallbackTimezone == ensureTimezone(<<timezoneFallback>>, DEFAULT_TIMEZONE)
  IN IF ~isObject(value)
       THEN [config            |-> DefaultScheduleConfig(t, fallbackTimezone),
             requiresMigration |-> TRUE]
     ELSE
       LET timezone  == ensureTimezone(Field(value, "timezone"), fallbackTimezone)
           rawAnchor == Field(value, "anchorLocalDate")
           anchorOk  == Len(rawAnchor) = 1 /\ parseLocalDateKey(rawAnchor[1])
           rawUpdatedAt == Field(value, "updatedAt")
       IN [config |->
             [version         |-> BACKUP_SCHEDULE_VERSION,
              enabledCadences |-> normalizeCadences(Field(value, "enabledCadences")),
              timezone        |-> timezone,
              anchorLocalDate |-> IF anchorOk THEN rawAnchor[1]
                                  ELSE toLocalDateKey(t, timezone),
              updatedAt       |-> t],
           requiresMigration |->
             \/ Field(value, "version") # <<BACKUP_SCHEDULE_VERSION>>
             \/ Len(Field(value, "enabledCadences")) = 0
             \/ Len(normalizeCadences(Field(value, "enabledCadences"))) = 0
             \/ Len(Field(value, "timezone")) = 0
             \/ ~anchorOk
             \/ Len(rawUpdatedAt) = 0]

normalizeBackupScheduleConfig(value, timezoneFallback, t) ==
  LET fallbackTimezone == ensureTimezone(<<timezoneFallback>>, DEFAULT_TIMEZONE)
  IN IF ~isObject(value)
       THEN [config            |-> DefaultScheduleConfig(t, fallbackTimezone),
             requiresMigration |-> TRUE]
     ELSE
       LET timezone  == ensureTimezone(Field(value, "timezone"), fallbackTimezone)
           rawAnchor == Field(value, "anchorLocalDate")
           anchorOk  == Len(rawAnchor) = 1 /\ parseLocalDateKey(rawAnchor[1])
           rawUpdatedAt == Field(value, "updatedAt")
       IN [config |->
             [version         |-> BACKUP_SCHEDULE_VERSION,
              enabledCadences |-> normalizeCadences(Field(value, "enabledCadences")),
              timezone        |-> timezone,
              anchorLocalDate |-> IF anchorOk THEN rawAnchor[1]
                                  ELSE toLocalDateKey(t, timezone),
              updatedAt       |-> IF Len(rawUpdatedAt) = 1 THEN rawUpdatedAt[1] ELSE t],
           requiresMigration |->
             \/ Field(value, "version") # <<BACKUP_SCHEDULE_VERSION>>
             \/ Len(Field(value, "enabledCadences")) = 0
             \/ Len(normalizeCadences(Field(value, "enabledCadences"))) = 0
             \/ Len(Field(value, "timezone")) = 0
             \/ ~anchorOk
             \/ Len(rawUpdatedAt) = 0]

(***************************************************************************)
(* State of the system.                                                    *)
(***************************************************************************)
\* the triggers that may invoke the service concurrently: the scheduled tick
\* and a redundant one (another platform's cron, a retry, a re-invocation)
Triggers == {"cron", "retry"}

VARIABLES
  clock,                     \* the current instant, in ticks
  processEnv,                \* process.env[API_TOKEN_ENV_VAR], "" when unset
  pluginId,                  \* id of the plugin record, "" when there is none
  siteTimezone,              \* timezone of the project (site.find)
  backupSchedule,            \* persisted Configuration (plugin parameters)
  automaticBackupsSchedule,  \* persisted State (plugin parameters)
  environments,              \* remote environments, in creation order
  pass,                      \* the invocation in flight of each trigger
  faults,                    \* faults raised so far
  runs,                      \* invocations started so far
  hist,                      \* history of the behaviour (observations only)
  probe                      \* a call of a pure function: inputs and output

sysvars == <<clock, processEnv, pluginId, siteTimezone, backupSchedule,
             automaticBackupsSchedule, environments, pass, faults, runs, hist>>

vars == <<sysvars, probe>>

\* a trigger with no invocation in flight
IdlePass ==
  [pc                            |-> "idle",
   kind                          |-> "",
   scope                         |-> "",
   optionsApiToken               |-> "",
   error                         |-> "",
   now                           |-> 0,
   pluginId                      |-> "",
   requiresMigration             |-> FALSE,
   pluginParameters              |-> [backupSchedule           |-> NotAnObject,
                                      automaticBackupsSchedule |-> NotAnObject],
   scheduleConfig                |-> DefaultScheduleConfig(0, DEFAULT_TIMEZONE),
   scheduleState                 |-> EmptyScheduleState,
   cadences                      |-> <<>>,
   i                             |-> 1,
   previousBackups               |-> <<>>,
   k                             |-> 1,
   runLocalDateByCadence         |-> EmptyMap,
   runAtByCadence                |-> EmptyMap,
   managedEnvironmentIdByCadence |-> EmptyMap,
   executionModeByCadence        |-> EmptyMap,
   errorByCadence                |-> EmptyMap,
   results                       |-> <<>>]

\* the persisted Configuration of the deployment: a zone half a day behind
\* UTC, anchored a week before the first local date of a behaviour
InitialSchedule ==
  [version         |-> BACKUP_SCHEDULE_VERSION,
   enabledCadences |-> <<"daily", "weekly">>,
   timezone        |-> -1,
   anchorLocalDate |-> [year |-> 2026, month |-> 2, day |-> 19],
   updatedAt       |-> 0]

(***************************************************************************)
(* Loading the context of an invocation.                                   *)
(***************************************************************************)
MapGet(map, c, absent) == IF c \in DOMAIN map THEN map[c] ELSE absent

\* toCadenceMap / toExecutionModeCadenceMap: entries without a value are dropped
toCadenceMap(map, absent) ==
  [x \in {c \in DOMAIN map : map[c] # absent} |-> map[x]]

toScheduleState(value) ==
  IF ~isObject(value) THEN EmptyScheduleState ELSE
  [value EXCEPT
     !.lastRunLocalDateByCadence = toCadenceMap(@, NoDate),
     !.lastRunAtByCadence = toCadenceMap(@, NoInstant),
     !.lastManagedEnvironmentIdByCadence = toCadenceMap(@, NoEnvId),
     !.lastExecutionModeByCadence = toCadenceMap(@, ""),
     !.lastErrorByCadence = toCadenceMap(@, "")]

\* resolveApiToken handing on an undefined token instead of throwing
resolveApiToken_NoCheck(apiToken) ==
  IF apiToken # "" THEN apiToken ELSE IF processEnv # "" THEN processEnv ELSE "undefined"

\* resolveApiToken: "" stands for the MissingApiTokenError thrown
resolveApiToken(apiToken) == IF apiToken # "" THEN apiToken ELSE processEnv

\* getProjectTimezone
getProjectTimezone == ensureTimezone(<<siteTimezone>>, DEFAULT_TIMEZONE)

\* getBackupContext after findAutomaticBackupsPlugin and getProjectTimezone:
\* the context it returns, before the write of a migrated Configuration
getBackupContext(t) ==
  IF pluginId = ""
    THEN [pluginId          |-> "",
          requiresMigration |-> FALSE,
          pluginParameters  |-> [backupSchedule           |-> NotAnObject,
                                 automaticBackupsSchedule |-> NotAnObject],
          scheduleConfig    |->
            normalizeBackupScheduleConfig(NotAnObject, getProjectTimezone, t).config,
          scheduleState     |-> EmptyScheduleState]
    ELSE LET normalized ==
               normalizeBackupScheduleConfig(backupSchedule, getProjectTimezone, t)
         IN [pluginId          |-> pluginId,
             requiresMigration |-> normalized.requiresMigration,
             pluginParameters  |->
               [backupSchedule           |-> IF normalized.requiresMigration
                                               THEN normalized.config
                                               ELSE backupSchedule,
                automaticBackupsSchedule |-> automaticBackupsSchedule],
             scheduleConfig    |-> normalized.config,
             scheduleState     |-> toScheduleState(automaticBackupsSchedule)]

getDueCadences(context, t) ==
  LET currentLocalDate == toLocalDateKey(t, context.scheduleConfig.timezone)
  IN FilterSeq(context.scheduleConfig.enabledCadences,
       {cadence \in Cadences :
          isCadenceDueNow(cadence,
                          context.scheduleConfig.anchorLocalDate,
                          currentLocalDate,
                          getLastRunLocalDateForCadence(
                            context.scheduleState, cadence, t,
                            context.scheduleConfig.timezone))})

\* the invocation right after its context was loaded, about to process `cadences`
LoadedPass(context, t, cadences) ==
  [IdlePass EXCEPT
     !.pc = IF cadences = <<>> THEN "skip" ELSE "list",
     !.now = t,
     !.pluginId = context.pluginId,
     !.requiresMigration = context.requiresMigration,
     !.pluginParameters = context.pluginParameters,
     !.scheduleConfig = context.scheduleConfig,
     !.scheduleState = context.scheduleState,
     !.cadences = cadences,
     !.runLocalDateByCadence = context.scheduleState.lastRunLocalDateByCadence,
     !.runAtByCadence = context.scheduleState.lastRunAtByCadence,
     !.managedEnvironmentIdByCadence =
         context.scheduleState.lastManagedEnvironmentIdByCadence,
     !.executionModeByCadence = context.scheduleState.lastExecutionModeByCadence,
     !.errorByCadence = context.scheduleState.lastErrorByCadence]

(***************************************************************************)
(* The per-cadence loop of executeCadencesAndPersistState.                 *)
(***************************************************************************)
\* the failed cadence is attempted again
IndexAfterFailure_Retry(i) == i

\* index of the cadence processed after the one at index i failed
IndexAfterFailure(i) == i + 1

\* the State is written after each cadence
ContinueAt_PersistEach(pr, j) ==
  [pr EXCEPT !.i = j, !.pc = "persist", !.previousBackups = <<>>, !.k = 1]

\* the loop moves on to the cadence at index j, or leaves the loop
ContinueAt(pr, j) ==
  [pr EXCEPT !.i = j,
             !.pc = IF j > Len(pr.cadences) THEN "persist" ELSE "list",
             !.previousBackups = <<>>,
             !.k = 1]

\* the error is recorded and ends the loop
CadenceFailed_EndsLoop(pr, message) ==
  LET cadence == pr.cadences[pr.i]
  IN ContinueAt(
       [pr EXCEPT
          !.errorByCadence = MapSet(@, cadence, message),
          !.results = Append(@, [scope  |-> cadence,
                                 status |-> "failed",
                                 error  |-> message,
                                 result |-> [createdEnvironmentId |-> NoEnvId,
                                             deletedEnvironmentId |-> NoEnvId]])],
       Len(pr.cadences) + 1)

\* the failure also drops the environment id remembered for the cadence
CadenceFailed_ForgetsEnvironment(pr, message) ==
  LET cadence == pr.cadences[pr.i]
  IN ContinueAt(
       [pr EXCEPT
          !.errorByCadence = MapSet(@, cadence, message),
          !.managedEnvironmentIdByCadence = MapDelete(@, cadence),
          !.results = Append(@, [scope  |-> cadence,
                                 status |-> "failed",
                                 error  |-> message,
                                 result |-> [createdEnvironmentId |-> NoEnvId,
                                             deletedEnvironmentId |-> NoEnvId]])],
       IndexAfterFailure(pr.i))

\* catch (error): the cadence is recorded as failed
CadenceFailed(pr, message) ==
  LET cadence == pr.cadences[pr.i]
  IN ContinueAt(
       [pr EXCEPT
          !.errorByCadence = MapSet(@, cadence, message),
          !.results = Append(@, [scope  |-> cadence,
                                 status |-> "failed",
                                 error  |-> message,
                                 result |-> [createdEnvironmentId |-> NoEnvId,
                                             deletedEnvironmentId |-> NoEnvId]])],
       IndexAfterFailure(pr.i))

\* the local date recorded for an executed cadence, taken in UTC
RunLocalDate_Utc(pr) == toLocalDateKey(pr.now, 0)

\* local date recorded for a cadence executed by the invocation
RunLocalDate(pr) == toLocalDateKey(pr.now, pr.scheduleConfig.timezone)

\* the error of an earlier pass is kept
ErrorsAfterSuccess_Kept(map, cadence) == map

\* errorByCadence after a cadence executed
ErrorsAfterSuccess(map, cadence) == MapDelete(map, cadence)

\* the cadence executed: executeScopedBackup returned `result` at instant t
CadenceExecuted(pr, result, t) ==
  LET cadence == pr.cadences[pr.i]
  IN ContinueAt(
       [pr EXCEPT
          !.runLocalDateByCadence = MapSet(@, cadence, RunLocalDate(pr)),
          !.runAtByCadence = MapSet(@, cadence, t),
          !.managedEnvironmentIdByCadence =
              MapSet(@, cadence, result.createdEnvironmentId),
          !.executionModeByCadence = MapSet(@, cadence, "lambda_cron"),
          !.errorByCadence = ErrorsAfterSuccess(@, cadence),
          !.results = Append(@, [scope  |-> cadence,
                                 status |-> "executed",
                                 error  |-> "",
                                 result |-> result])],
       pr.i + 1)

\* hasScheduledBackupFailures looking at the last entry only
hasScheduledBackupFailures_LastOnly(results) ==
  /\ results # <<>>
  /\ results[Len(results)].status = "failed"

hasScheduledBackupFailures(results) ==
  \E j \in DOMAIN results : results[j].status = "failed"

\* the State written at the end of the pass
NextScheduleState(pr) ==
  LET base == [pr.scheduleState EXCEPT
                 !.lastRunLocalDateByCadence = pr.runLocalDateByCadence,
                 !.lastRunAtByCadence = pr.runAtByCadence,
                 !.lastManagedEnvironmentIdByCadence =
                     pr.managedEnvironmentIdByCadence,
                 !.lastExecutionModeByCadence = pr.executionModeByCadence,
                 !.lastErrorByCadence = pr.errorByCadence]
      d1 == IF "daily" \in DOMAIN pr.runLocalDateByCadence
              THEN [base EXCEPT !.dailyLastRunDate = pr.runLocalDateByCadence["daily"]]
              ELSE base
      d2 == IF "daily" \in DOMAIN pr.runAtByCadence
              THEN [d1 EXCEPT
                      !.lastDailyRunAt = pr.runAtByCadence["daily"],
                      !.lastDailyExecutionMode =
                          MapGet(pr.executionModeByCadence, "daily", ""),
                      !.lastDailyManagedEnvironmentId =
                          MapGet(pr.managedEnvironmentIdByCadence, "daily", NoEnvId),
                      !.lastDailyError = MapGet(pr.errorByCadence, "daily", "")]
              ELSE d1
      w1 == IF "weekly" \in DOMAIN pr.runLocalDateByCadence
              THEN [d2 EXCEPT !.weeklyLastRunKey = toUtcIsoWeekKey(pr.now)]
              ELSE d2
  IN IF "weekly" \in DOMAIN pr.runAtByCadence
       THEN [w1 EXCEPT
               !.lastWeeklyRunAt = pr.runAtByCadence["weekly"],
               !.lastWeeklyExecutionMode =
                   MapGet(pr.executionModeByCadence, "weekly", ""),
               !.lastWeeklyManagedEnvironmentId =
                   MapGet(pr.managedEnvironmentIdByCadence, "weekly", NoEnvId),
               !.lastWeeklyError = MapGet(pr.errorByCadence, "weekly", "")]
       ELSE w1

(***************************************************************************)
(* executeScopedBackup: the remote calls of one cadence.                   *)
(***************************************************************************)
\* the filter without the test of meta.primary
PreviousBackups_PrimaryToo(envs, prefix) ==
  LET kept == SelectSeq(envs, LAMBDA e : StartsWithPrefix(e.id, prefix))
  IN [j \in DOMAIN kept |-> kept[j].id]

\* environments.filter(!primary && id.startsWith(`${prefix}-`)), ids only
RECURSIVE PreviousBackups(_, _)
PreviousBackups(envs, prefix) ==
  IF envs = <<>> THEN <<>>
  ELSE IF ~Head(envs).primary /\ StartsWithPrefix(Head(envs).id, prefix)
         THEN <<Head(envs).id>> \o PreviousBackups(Tail(envs), prefix)
       ELSE PreviousBackups(Tail(envs), prefix)

RECURSIVE WithoutEnv(_, _)
WithoutEnv(envs, id) ==
  IF envs = <<>> THEN <<>>
  ELSE IF Head(envs).id = id THEN WithoutEnv(Tail(envs), id)
       ELSE <<Head(envs)>> \o WithoutEnv(Tail(envs), id)

\* the first listed environment is taken for the primary one
HasPrimary_FirstListed(envs) == envs # <<>>

\* environments.find((environment) => environment.meta.primary) finds one
HasPrimary(envs) == \E j \in DOMAIN envs : envs[j].primary

\* `${prefix}-${getDateSuffix(now)}`
CreatedEnvironmentId(scope, t) == EnvId(getEnvironmentPrefix(scope), getDateSuffix(t))

\* previousBackups[0]?.id ?? null
DeletedEnvironmentId(previousBackups) ==
  IF previousBackups = <<>> THEN NoEnvId ELSE previousBackups[1]

\* executeScopedBackup forks without destroying
AfterList_ForkFirst(previousBackups) == "fork"

\* where executeScopedBackup goes after the list call
AfterList(previousBackups) == IF previousBackups = <<>> THEN "fork" ELSE "destroy"

(***************************************************************************)
(* History of a behaviour: what happened, recorded for the properties      *)
(* below.  No action reads it.                                             *)
(***************************************************************************)
Other(p) == CHOOSE q \in Triggers : q # p

InFlight(p) == pass[p].pc # "idle"

NoEnded == [overlaps |-> -1, utcDate |-> NoDate, cadences |-> <<>>]

NoFailure == [localDate |-> NoDate, cadences |-> {}]

InitHist ==
  [settled    |-> {},   \* <<cadence, local date>> executed and recorded by a pass
                        \* that was alone when it wrote the State
   executed   |-> {},   \* <<cadence, local date>> executed by a scheduled pass
   reexecuted |-> {},   \* ... executed by more than one scheduled pass
   disturbed  |-> FALSE,\* two passes overlapped, or a pass was cut short
   overlaps   |-> [p \in Triggers |-> 0],  \* passes that overlapped this one
   faulted    |-> [p \in Triggers |-> FALSE], \* the pass met a transport fault
   ended      |-> [p \in Triggers |-> NoEnded], \* the pass that finished while
                                                \* the other was in flight
   listed     |-> [p \in Triggers |-> <<>>], \* prior backups of this execution
   destroyed  |-> [p \in Triggers |-> {}],   \* ids destroyed by this execution
   failed     |-> [p \in Triggers |-> {}],   \* cadences whose remote call failed
   attempts   |-> [p \in Triggers |-> <<>>], \* cadences the pass began to execute
   lastFailure|-> NoFailure,                 \* failures of the latest pass
   retryOf    |-> [p \in Triggers |-> {}],   \* failures the pass comes right after
   calls      |-> [p \in Triggers |-> {}]]   \* remote calls the invocation issued

executedScopes(results) ==
  {results[j].scope : j \in {x \in DOMAIN results : results[x].status = "executed"}}

failedScopes(results) ==
  {results[j].scope : j \in {x \in DOMAIN results : results[x].status = "failed"}}

\* the history when trigger p starts a pass with local date d
HistAtStart(p, d) ==
  LET busy == InFlight(Other(p))
  IN [hist EXCEPT
        !.disturbed = @ \/ busy,
        !.overlaps = [@ EXCEPT ![p] = IF busy THEN 1 ELSE 0,
                               ![Other(p)] = IF busy THEN Min(2, @ + 1) ELSE 0],
        !.ended = [@ EXCEPT ![p] = NoEnded],
        !.retryOf = [@ EXCEPT ![p] = IF hist.lastFailure.localDate = d
                                       THEN hist.lastFailure.cadences ELSE {}],
        !.calls = [@ EXCEPT ![p] = {}],
        !.lastFailure = NoFailure]

\* the history when the pass of trigger p is over; `summary` is kept for the
\* pass still in flight, if any
HistAtEnd(h, p, summary) ==
  LET busy == InFlight(Other(p))
  IN [h EXCEPT
        !.overlaps = [@ EXCEPT ![p] = 0],
        !.faulted = [@ EXCEPT ![p] = FALSE],
        !.ended = IF busy THEN [@ EXCEPT ![p] = summary]
                  ELSE [q \in Triggers |-> NoEnded],
        !.listed = [@ EXCEPT ![p] = <<>>],
        !.destroyed = [@ EXCEPT ![p] = {}],
        !.failed = [@ EXCEPT ![p] = {}],
        !.attempts = [@ EXCEPT ![p] = <<>>],
        !.retryOf = [@ EXCEPT ![p] = {}],
        !.calls = [@ EXCEPT ![p] = {}]]

\* the history h after the invocation of trigger p issued the remote calls `names`
Called(h, p, names) == [h EXCEPT !.calls = [@ EXCEPT ![p] = @ \cup names]]

\* the history when a remote call of the cadence in progress fails
HistAtFailure(p, fault) ==
  [hist EXCEPT
     !.faulted = [@ EXCEPT ![p] = @ \/ fault],
     !.failed = [@ EXCEPT ![p] = @ \cup {pass[p].cadences[pass[p].i]}]]

(***************************************************************************)
(* Actions.                                                                *)
(***************************************************************************)
\* no pure function is being probed
NoProbe == [fn |-> "", done |-> FALSE]

SysInit ==
  /\ clock = 0
  /\ processEnv = "token"
  /\ pluginId = "plugin"
  /\ siteTimezone = DEFAULT_TIMEZONE
  /\ backupSchedule = InitialSchedule
  /\ automaticBackupsSchedule = EmptyScheduleState
  /\ environments = <<[id |-> MainEnvId, primary |-> TRUE]>>
  /\ pass = [p \in Triggers |-> IdlePass]
  /\ faults = 0
  /\ runs = 0
  /\ hist = InitHist

Init == SysInit /\ probe = NoProbe

\* time passes
Tick ==
  /\ clock < MaxTick
  /\ clock' = clock + 1
  /\ UNCHANGED <<probe, processEnv, pluginId, siteTimezone, backupSchedule, automaticBackupsSchedule,
                 environments, pass, faults, runs, hist>>

\* the credentials an invocation may be given: none, or the project's token
ApiTokens == {"", "token"}

\* the invocation ends by throwing `error`
Thrown(pr, error) == [pr EXCEPT !.pc = "thrown", !.error = error]

\* runManualBackupNow consulting the due guard like a scheduled pass
AfterContext_ManualWhenDue(pr) ==
  LET kept(loaded) == [loaded EXCEPT !.kind = pr.kind, !.scope = pr.scope,
                                     !.optionsApiToken = pr.optionsApiToken]
  IN CASE pr.kind = "scheduled" ->
            kept(LoadedPass(pr, pr.now, getDueCadences(pr, pr.now)))
       [] pr.kind = "manual" ->
            IF pr.scope \notin Range(pr.scheduleConfig.enabledCadences)
              THEN Thrown(kept(LoadedPass(pr, pr.now, <<>>)), "CadenceNotEnabledError")
              ELSE kept(LoadedPass(pr, pr.now,
                                   FilterSeq(getDueCadences(pr, pr.now), {pr.scope})))
       [] OTHER ->
            [kept(LoadedPass(pr, pr.now, <<>>)) EXCEPT !.pc = "status"]

\* what the operation does once getBackupContext returned the context held by pr
AfterContext(pr) ==
  LET kept(loaded) == [loaded EXCEPT !.kind = pr.kind, !.scope = pr.scope,
                                     !.optionsApiToken = pr.optionsApiToken]
  IN CASE pr.kind = "scheduled" ->
            kept(LoadedPass(pr, pr.now, getDueCadences(pr, pr.now)))
       [] pr.kind = "manual" ->
            IF pr.scope \notin Range(pr.scheduleConfig.enabledCadences)
              THEN Thrown(kept(LoadedPass(pr, pr.now, <<>>)), "CadenceNotEnabledError")
              ELSE kept(LoadedPass(pr, pr.now, <<pr.scope>>))
       [] OTHER ->
            [kept(LoadedPass(pr, pr.now, <<>>)) EXCEPT !.pc = "status"]

\* the start of runScheduledBackups, runManualBackupNow or getBackupStatus:
\* getBackupContext up to the write of a migrated Configuration, and, when
\* there is nothing to migrate, what follows it up to the next remote call.
\* Which of two idle triggers fires is immaterial: the redundant one is used
\* for the invocations that start while another is in flight.
BeginInvocation(p, kind, scope, apiToken, limit) ==
  /\ pass[p].pc = "idle"
  /\ runs < limit
  /\ p = "retry" => InFlight("cron")
  /\ runs' = runs + 1
  /\ IF resolveApiToken(apiToken) = ""
       THEN /\ pass' = [pass EXCEPT ![p] =
                Thrown([IdlePass EXCEPT !.kind = kind, !.scope = scope, !.now = clock,
                                        !.optionsApiToken = apiToken],
                       "MissingApiTokenError")]
            /\ hist' = HistAtStart(p, NoDate)
            /\ processEnv' = processEnv
       ELSE LET context == getBackupContext(clock)
                loaded  == [LoadedPass(context, clock, <<>>) EXCEPT
                              !.kind = kind, !.scope = scope, !.pc = "migrate",
                              !.optionsApiToken = apiToken]
            IN /\ processEnv' = resolveApiToken(apiToken)
               /\ pass' = [pass EXCEPT ![p] =
                    IF context.requiresMigration THEN loaded ELSE AfterContext(loaded)]
               /\ hist' = Called(
                    HistAtStart(p, toLocalDateKey(clock, context.scheduleConfig.timezone)),
                    p, {"plugins.list", "site.find"})
  /\ UNCHANGED <<probe, clock, pluginId, siteTimezone, backupSchedule,
                 automaticBackupsSchedule, environments, faults>>

\* runScheduledBackups, up to the computation of the due cadences, invoked
\* with no credential in its options (it is taken from the process)
StartScheduledBackups(p, limit) == BeginInvocation(p, "scheduled", "", "", limit)

RunScheduledBackups(p) == StartScheduledBackups(p, MaxRuns)

\* getBackupContext: persistPluginParameters of the migrated Configuration,
\* with the other parameters as they were read, and what follows it up to the
\* next remote call
MigrateConfiguration(p) ==
  /\ pass[p].pc = "migrate"
  /\ backupSchedule' = pass[p].pluginParameters.backupSchedule
  /\ automaticBackupsSchedule' = pass[p].pluginParameters.automaticBackupsSchedule
  /\ pass' = [pass EXCEPT ![p] = AfterContext(pass[p])]
  /\ hist' = Called(hist, p, {"plugins.update"})
  /\ UNCHANGED <<probe, processEnv, clock, pluginId, siteTimezone, environments,
                 faults, runs>>

\* an invocation that threw returns its error to the caller
ReturnThrown(p) ==
  /\ pass[p].pc = "thrown"
  /\ pass' = [pass EXCEPT ![p] = IdlePass]
  /\ hist' = HistAtEnd(hist, p, NoEnded)
  /\ UNCHANGED <<probe, processEnv, clock, pluginId, siteTimezone, backupSchedule,
                 automaticBackupsSchedule, environments, faults, runs>>

\* getBackupStatus pruning the previous backups it lists
ReturnBackupStatus_Pruning(p) ==
  /\ pass[p].pc = "status"
  /\ pass' = [pass EXCEPT ![p] = IdlePass]
  /\ hist' = HistAtEnd(hist, p, NoEnded)
  /\ environments' = FilterSeq(environments, {e \in Range(environments) : e.primary})
  /\ UNCHANGED <<probe, processEnv, clock, pluginId, siteTimezone, backupSchedule,
                 automaticBackupsSchedule, faults, runs>>

\* getBackupStatus: environments.list and the return of the slots
ReturnBackupStatus(p) ==
  /\ pass[p].pc = "status"
  /\ pass' = [pass EXCEPT ![p] = IdlePass]
  /\ hist' = HistAtEnd(hist, p, NoEnded)
  /\ UNCHANGED <<probe, processEnv, clock, pluginId, siteTimezone, backupSchedule,
                 automaticBackupsSchedule, environments, faults, runs>>

\* runScheduledBackups returns skipped = true, reason NOT_DUE
ReturnSkipped(p) ==
  /\ pass[p].pc = "skip"
  /\ pass' = [pass EXCEPT ![p] = IdlePass]
  /\ hist' = HistAtEnd(hist, p, NoEnded)
  /\ UNCHANGED <<probe, processEnv, clock, pluginId, siteTimezone, backupSchedule,
                 automaticBackupsSchedule, environments, faults, runs>>

\* executeScopedBackup: client.environments.list() and what follows it up to
\* the first destroy or the fork
ListEnvironments(p) ==
  /\ pass[p].pc = "list"
  /\ LET pr      == pass[p]
         cadence == pr.cadences[pr.i]
         previousBackups ==
           PreviousBackups(environments, getEnvironmentPrefix(cadence))
     IN IF ~HasPrimary(environments)
          THEN /\ pass' = [pass EXCEPT ![p] =
                   CadenceFailed(pr, "Could not locate the primary DatoCMS environment.")]
               /\ hist' = [Called(HistAtFailure(p, TRUE), p, {"environments.list"}) EXCEPT
                             !.attempts = [@ EXCEPT ![p] = Append(@, cadence)],
                             !.listed = [@ EXCEPT ![p] = <<>>],
                             !.destroyed = [@ EXCEPT ![p] = {}]]
          ELSE /\ pass' = [pass EXCEPT ![p] =
                   [pr EXCEPT !.previousBackups = previousBackups,
                              !.k = 1,
                              !.pc = AfterList(previousBackups)]]
               /\ hist' = [Called(hist, p, {"environments.list"}) EXCEPT
                             !.attempts = [@ EXCEPT ![p] = Append(@, cadence)],
                             !.listed = [@ EXCEPT ![p] = previousBackups],
                             !.destroyed = [@ EXCEPT ![p] = {}]]
  /\ UNCHANGED <<probe, processEnv, clock, pluginId, siteTimezone, backupSchedule,
                 automaticBackupsSchedule, environments, faults, runs>>

\* client.environments.list() fails (transport)
ListEnvironmentsFails(p) ==
  /\ pass[p].pc = "list"
  /\ faults < MaxFaults
  /\ faults' = faults + 1
  /\ pass' = [pass EXCEPT ![p] = CadenceFailed(pass[p], "Remote request failed")]
  /\ hist' = [Called(HistAtFailure(p, TRUE), p, {"environments.list"}) EXCEPT
                !.attempts = [@ EXCEPT ![p] = Append(@, pass[p].cadences[pass[p].i])],
                !.listed = [@ EXCEPT ![p] = <<>>],
                !.destroyed = [@ EXCEPT ![p] = {}]]
  /\ UNCHANGED <<probe, processEnv, clock, pluginId, siteTimezone, backupSchedule,
                 automaticBackupsSchedule, environments, runs>>

\* where executeScopedBackup goes after the destroy call number k returned
AfterDestroy(previousBackups, k) ==
  IF k >= Len(previousBackups) THEN "fork" ELSE "destroy"

\* client.environments.destroy(previousBackup.id)
DestroyEnvironment(p) ==
  /\ pass[p].pc = "destroy"
  /\ LET pr == pass[p]
         id == pr.previousBackups[pr.k]
     IN IF id \in EnvIds(environments)
          THEN /\ environments' = WithoutEnv(environments, id)
               /\ pass' = [pass EXCEPT ![p] =
                   [pr EXCEPT !.k = @ + 1,
                              !.pc = AfterDestroy(pr.previousBackups, pr.k)]]
               /\ hist' = [Called(hist, p, {"environments.destroy"}) EXCEPT
                             !.destroyed = [@ EXCEPT ![p] = @ \cup {id}]]
          ELSE /\ environments' = environments
               /\ pass' = [pass EXCEPT ![p] =
                   CadenceFailed(pr, "Environment does not exist")]
               /\ hist' = Called(HistAtFailure(p, FALSE), p, {"environments.destroy"})
  /\ UNCHANGED <<probe, processEnv, clock, pluginId, siteTimezone, backupSchedule,
                 automaticBackupsSchedule, faults, runs>>

\* client.environments.destroy fails (transport)
DestroyEnvironmentFails(p) ==
  /\ pass[p].pc = "destroy"
  /\ faults < MaxFaults
  /\ faults' = faults + 1
  /\ pass' = [pass EXCEPT ![p] = CadenceFailed(pass[p], "Remote request failed")]
  /\ hist' = Called(HistAtFailure(p, TRUE), p, {"environments.destroy"})
  /\ UNCHANGED <<probe, processEnv, clock, pluginId, siteTimezone, backupSchedule,
                 automaticBackupsSchedule, environments, runs>>

\* client.environments.fork(mainEnvironment.id, {id: createdEnvironmentId}),
\* the return of executeScopedBackup and the bookkeeping of the loop body
ForkEnvironment(p) ==
  /\ pass[p].pc = "fork"
  /\ LET pr      == pass[p]
         cadence == pr.cadences[pr.i]
         createdEnvironmentId == CreatedEnvironmentId(cadence, pr.now)
         result  == [createdEnvironmentId |-> createdEnvironmentId,
                     deletedEnvironmentId |-> DeletedEnvironmentId(pr.previousBackups)]
         key     == <<cadence, RunLocalDate(pr)>>
     IN IF createdEnvironmentId \in EnvIds(environments)
          THEN /\ environments' = environments
               /\ pass' = [pass EXCEPT ![p] =
                   CadenceFailed(pr, "Environment id already exists")]
               /\ hist' = Called(HistAtFailure(p, FALSE), p, {"environments.fork"})
          ELSE /\ environments' =
                   Append(environments, [id |-> createdEnvironmentId, primary |-> FALSE])
               /\ pass' = [pass EXCEPT ![p] = CadenceExecuted(pr, result, clock)]
               /\ hist' = [Called(hist, p, {"environments.fork"}) EXCEPT
                             !.executed = @ \cup {key},
                             !.reexecuted = @ \cup ({key} \cap hist.executed)]
  /\ UNCHANGED <<probe, processEnv, clock, pluginId, siteTimezone, backupSchedule,
                 automaticBackupsSchedule, faults, runs>>

\* client.environments.fork fails (transport)
ForkEnvironmentFails(p) ==
  /\ pass[p].pc = "fork"
  /\ faults < MaxFaults
  /\ faults' = faults + 1
  /\ pass' = [pass EXCEPT ![p] = CadenceFailed(pass[p], "Remote request failed")]
  /\ hist' = Called(HistAtFailure(p, TRUE), p, {"environments.fork"})
  /\ UNCHANGED <<probe, processEnv, clock, pluginId, siteTimezone, backupSchedule,
                 automaticBackupsSchedule, environments, runs>>

\* persistScheduleState merging its updates into the State persisted meanwhile
PersistScheduleState_Merging(p) ==
  /\ pass[p].pc = "persist"
  /\ LET pr      == pass[p]
         own     == executedScopes(pr.results)
         written == NextScheduleState(pr)
         current == toScheduleState(automaticBackupsSchedule)
     IN
       /\ IF pr.pluginId # "" /\ Len(pr.cadences) > 0
            THEN /\ automaticBackupsSchedule' =
                      [written EXCEPT
                         !.lastRunLocalDateByCadence =
                             [c \in (own \cap DOMAIN written.lastRunLocalDateByCadence)
                                      \cup DOMAIN current.lastRunLocalDateByCadence |->
                                IF c \in own THEN written.lastRunLocalDateByCadence[c]
                                ELSE current.lastRunLocalDateByCadence[c]],
                         !.dailyLastRunDate =
                             IF "daily" \in own THEN @ ELSE current.dailyLastRunDate,
                         !.weeklyLastRunKey =
                             IF "weekly" \in own THEN @ ELSE current.weeklyLastRunKey]
                 /\ backupSchedule' = pr.pluginParameters.backupSchedule
            ELSE UNCHANGED <<automaticBackupsSchedule, backupSchedule>>
       /\ hist' = [HistAtEnd(hist, p,
                     [overlaps |-> hist.overlaps[p],
                      utcDate  |-> getDateSuffix(pr.now),
                      cadences |-> IF hist.faulted[p] THEN <<>> ELSE pr.cadences])
                   EXCEPT
                     !.settled = IF pr.pluginId # "" /\ ~InFlight(Other(p))
                                   THEN @ \cup {<<c, RunLocalDate(pr)>> :
                                                  c \in executedScopes(pr.results)}
                                   ELSE @,
                     !.lastFailure = IF hist.overlaps[p] = 0
                                       THEN [localDate |-> RunLocalDate(pr),
                                             cadences  |-> failedScopes(pr.results)]
                                       ELSE NoFailure]
  /\ pass' = [pass EXCEPT ![p] = IdlePass]
  /\ UNCHANGED <<probe, processEnv, clock, pluginId, siteTimezone, environments, faults, runs>>

\* persistScheduleState writing also when the context holds no plugin id
PersistScheduleState_Unconditional(p) ==
  /\ pass[p].pc = "persist"
  /\ LET pr == pass[p] IN
       /\ IF Len(pr.cadences) > 0
            THEN /\ automaticBackupsSchedule' = NextScheduleState(pr)
                 /\ backupSchedule' = IF pr.pluginId # ""
                                        THEN pr.pluginParameters.backupSchedule
                                        ELSE backupSchedule
            ELSE UNCHANGED <<automaticBackupsSchedule, backupSchedule>>
       /\ hist' = [HistAtEnd(hist, p,
                     [overlaps |-> hist.overlaps[p],
                      utcDate  |-> getDateSuffix(pr.now),
                      cadences |-> IF hist.faulted[p] THEN <<>> ELSE pr.cadences])
                   EXCEPT
                     !.settled = IF pr.pluginId # "" /\ ~InFlight(Other(p))
                                   THEN @ \cup {<<c, RunLocalDate(pr)>> :
                                                  c \in executedScopes(pr.results)}
                                   ELSE @,
                     !.lastFailure = IF hist.overlaps[p] = 0
                                       THEN [localDate |-> RunLocalDate(pr),
                                             cadences  |-> failedScopes(pr.results)]
                                       ELSE NoFailure]
  /\ pass' = [pass EXCEPT ![p] = IdlePass]
  /\ UNCHANGED <<probe, processEnv, clock, pluginId, siteTimezone, environments, faults, runs>>

\* the end of executeCadencesAndPersistState: persistScheduleState, then the
\* results are returned
PersistScheduleState(p) ==
  /\ pass[p].pc = "persist"
  /\ LET pr == pass[p] IN
       /\ IF pr.pluginId # "" /\ Len(pr.cadences) > 0
            THEN /\ automaticBackupsSchedule' = NextScheduleState(pr)
                 /\ backupSchedule' = pr.pluginParameters.backupSchedule
            ELSE UNCHANGED <<automaticBackupsSchedule, backupSchedule>>
       /\ hist' = [HistAtEnd(hist, p,
                     [overlaps |-> hist.overlaps[p],
                      utcDate  |-> getDateSuffix(pr.now),
                      cadences |-> IF hist.faulted[p] THEN <<>> ELSE pr.cadences])
                   EXCEPT
                     !.settled = IF pr.pluginId # "" /\ ~InFlight(Other(p))
                                   THEN @ \cup {<<c, RunLocalDate(pr)>> :
                                                  c \in executedScopes(pr.results)}
                                   ELSE @,
                     !.lastFailure = IF hist.overlaps[p] = 0
                                       THEN [localDate |-> RunLocalDate(pr),
                                             cadences  |-> failedScopes(pr.results)]
                                       ELSE NoFailure]
  /\ pass' = [pass EXCEPT ![p] = IdlePass]
  /\ UNCHANGED <<probe, processEnv, clock, pluginId, siteTimezone, environments, faults, runs>>

\* the host ends the invocation (timeout, or the State write is rejected)
Abort(p) ==
  /\ pass[p].pc \in {"list", "destroy", "fork", "persist"}
  /\ faults < MaxFaults
  /\ faults' = faults + 1
  /\ pass' = [pass EXCEPT ![p] = IdlePass]
  /\ hist' = [HistAtEnd(hist, p, NoEnded) EXCEPT !.disturbed = TRUE,
                                                 !.lastFailure = NoFailure]
  /\ UNCHANGED <<probe, processEnv, clock, pluginId, siteTimezone, backupSchedule,
                 automaticBackupsSchedule, environments, runs>>

Next ==
  \/ Tick
  \/ \E p \in Triggers :
       \/ RunScheduledBackups(p)
       \/ ReturnSkipped(p)
       \/ ListEnvironments(p)
       \/ ListEnvironmentsFails(p)
       \/ DestroyEnvironment(p)
       \/ DestroyEnvironmentFails(p)
       \/ ForkEnvironment(p)
       \/ ForkEnvironmentFails(p)
       \/ PersistScheduleState(p)
       \/ Abort(p)

Spec == Init /\ [][Next]_vars

(***************************************************************************)
(* Invocations that overlap while every remote call is answered: the only  *)
(* failures are "id already exists" and "id does not exist".               *)
(***************************************************************************)
RaceRunScheduledBackups(p) == StartScheduledBackups(p, MaxRaceRuns)

RaceNext ==
  \/ Tick
  \/ \E p \in Triggers :
       \/ RaceRunScheduledBackups(p)
       \/ ReturnSkipped(p)
       \/ ListEnvironments(p)
       \/ DestroyEnvironment(p)
       \/ ForkEnvironment(p)
       \/ PersistScheduleState(p)

SpecRace == Init /\ [][RaceNext]_vars

(***************************************************************************)
(* Deployments in any condition: no credential, no plugin record, a        *)
(* persisted Configuration that needs migration, no primary environment;   *)
(* invoked for scheduled passes, manual backups and status reports.        *)
(***************************************************************************)
\* a Configuration of an older version: no version tag
StaleSchedule ==
  [enabledCadences |-> <<"weekly">>,
   timezone        |-> 0 - 1,
   anchorLocalDate |-> [year |-> 2026, month |-> 2, day |-> 20],
   updatedAt       |-> 0]

\* a Configuration with no cadence, an unknown timezone and no such date
MalformedSchedule ==
  [version         |-> BACKUP_SCHEDULE_VERSION,
   enabledCadences |-> <<>>,
   timezone        |-> InvalidTimezone,
   anchorLocalDate |-> [year |-> 2026, month |-> 2, day |-> 30],
   updatedAt       |-> 0]

\* a Configuration anchored on the day after the first local date
FutureSchedule ==
  [version         |-> BACKUP_SCHEDULE_VERSION,
   enabledCadences |-> <<"daily", "weekly", "monthly">>,
   timezone        |-> 0 - 1,
   anchorLocalDate |-> [year |-> 2026, month |-> 2, day |-> 27],
   updatedAt       |-> 0]

AnySchedules ==
  {InitialSchedule, FutureSchedule, StaleSchedule, MalformedSchedule, NotAnObject}

\* an earlier daily backup
OldDailyBackup ==
  [id |-> EnvId(getEnvironmentPrefix("daily"), [year |-> 2026, month |-> 2, day |-> 20]),
   primary |-> FALSE]

\* the environments of a project: with a primary one, or with none flagged
\* primary and an earlier daily backup
AnyEnvironments ==
  {<<[id |-> MainEnvId, primary |-> TRUE]>>,
   <<[id |-> MainEnvId, primary |-> FALSE], OldDailyBackup>>}

AnyInit ==
  /\ clock = 0
  /\ processEnv \in ApiTokens
  /\ pluginId \in {"plugin", ""}
  /\ siteTimezone = 0 - 1
  /\ backupSchedule \in AnySchedules
  /\ automaticBackupsSchedule = EmptyScheduleState
  /\ environments \in AnyEnvironments
  /\ pass = [p \in Triggers |-> IdlePass]
  /\ faults = 0
  /\ runs = 0
  /\ hist = InitHist
  /\ probe = NoProbe

AnyRunScheduledBackups(p) ==
  \E apiToken \in ApiTokens : BeginInvocation(p, "scheduled", "", apiToken, MaxAnyRuns)

RunManualBackupNow(p) ==
  \E apiToken \in ApiTokens : \E scope \in Cadences :
    BeginInvocation(p, "manual", scope, apiToken, MaxAnyRuns)

GetBackupStatus(p) ==
  \E apiToken \in ApiTokens : BeginInvocation(p, "status", "", apiToken, MaxAnyRuns)

AnyNext ==
  \/ Tick
  \/ \E p \in Triggers :
       \/ AnyRunScheduledBackups(p)
       \/ RunManualBackupNow(p)
       \/ GetBackupStatus(p)
       \/ MigrateConfiguration(p)
       \/ ReturnThrown(p)
       \/ ReturnBackupStatus(p)
       \/ ReturnSkipped(p)
       \/ ListEnvironments(p)
       \/ DestroyEnvironment(p)
       \/ ForkEnvironment(p)
       \/ PersistScheduleState(p)

SpecAny == AnyInit /\ [][AnyNext]_vars

(***************************************************************************)
(* Calls of isCadenceDueNow on dates around the anchor.                    *)
(***************************************************************************)
ProbeAnchors ==
  { [year |-> 2026, month |-> 2, day |-> 19],
    [year |-> 2026, month |-> 1, day |-> 31],
    [year |-> 2026, month |-> 2, day |-> 30] }

ProbeDates ==
  { CivilFromDays(DaysFromCivil(2026, 2, 19) + n) : n \in (0 - 1) .. MaxProbeDays }

DueInit ==
  /\ SysInit
  /\ probe \in [fn               : {"isCadenceDueNow"},
                done             : {FALSE},
                cadence          : Cadences,
                anchorLocalDate  : ProbeAnchors,
                currentLocalDate : ProbeDates,
                lastRunLocalDate : ProbeDates \cup {NoDate},
                out              : {FALSE}]

CallIsCadenceDueNow ==
  /\ probe.fn = "isCadenceDueNow"
  /\ ~probe.done
  /\ probe' = [probe EXCEPT
                 !.done = TRUE,
                 !.out = isCadenceDueNow(probe.cadence, probe.anchorLocalDate,
                                         probe.currentLocalDate,
                                         probe.lastRunLocalDate)]
  /\ UNCHANGED sysvars

DueNext == CallIsCadenceDueNow

SpecDue == DueInit /\ [][DueNext]_vars

(***************************************************************************)
(* Calls of getNextDueLocalDate on dates before and after the anchor.      *)
(***************************************************************************)
\* anchors on the last day of a year before a leap year and before a common
\* year, and in the middle of a month
NextDueAnchors ==
  { [year |-> 2023, month |-> 12, day |-> 31],
    [year |-> 2025, month |-> 12, day |-> 31],
    [year |-> 2026, month |-> 2, day |-> 15] }

\* the date n days after the valid date key
DaysAfter(key, n) == CivilFromDays(buildUtcDateFromLocalParts(key) + n)

NextDueInit ==
  /\ SysInit
  /\ \E anchor \in NextDueAnchors :
     \E n \in (0 - MaxDaysBefore) .. MaxDaysAfter :
     \E lastRun \in {NoDate, DaysAfter(anchor, n), DaysAfter(anchor, n - 1)} :
       probe \in [fn               : {"getNextDueLocalDate"},
                  done             : {FALSE},
                  cadence          : Cadences,
                  anchorLocalDate  : {anchor},
                  currentLocalDate : {DaysAfter(anchor, n)},
                  lastRunLocalDate : {lastRun},
                  out              : {NoDate}]

CallGetNextDueLocalDate ==
  /\ probe.fn = "getNextDueLocalDate"
  /\ ~probe.done
  /\ probe' = [probe EXCEPT
                 !.done = TRUE,
                 !.out = getNextDueLocalDate(probe.cadence, probe.anchorLocalDate,
                                             probe.currentLocalDate,
                                             probe.lastRunLocalDate)]
  /\ UNCHANGED sysvars

NextDueNext == CallGetNextDueLocalDate

SpecNextDue == NextDueInit /\ [][NextDueNext]_vars

(***************************************************************************)
(* Calls of isCadenceScheduledOnDate on dates before and after the anchor. *)
(***************************************************************************)
\* anchors late in a month, before a year boundary, and before the February
\* of a leap year and of a common year
ScheduledAnchors ==
  { [year |-> 2024, month |-> 1, day |-> 31],
    [year |-> 2025, month |-> 12, day |-> 25],
    [year |-> 2025, month |-> 12, day |-> 31],
    [year |-> 2026, month |-> 1, day |-> 30] }

ScheduledInit ==
  /\ SysInit
  /\ \E anchor \in ScheduledAnchors :
     \E n \in (0 - MaxDaysBefore) .. MaxDaysAfter :
       probe \in [fn              : {"isCadenceScheduledOnDate"},
                  done            : {FALSE},
                  cadence         : Cadences,
                  anchorLocalDate : {anchor},
                  localDate       : {DaysAfter(anchor, n)},
                  out             : {FALSE}]

CallIsCadenceScheduledOnDate ==
  /\ probe.fn = "isCadenceScheduledOnDate"
  /\ ~probe.done
  /\ probe' = [probe EXCEPT
                 !.done = TRUE,
                 !.out = isCadenceScheduledOnDate(probe.cadence, probe.anchorLocalDate,
                                                  probe.localDate)]
  /\ UNCHANGED sysvars

ScheduledNext == CallIsCadenceScheduledOnDate

SpecScheduled == ScheduledInit /\ [][ScheduledNext]_vars

(***************************************************************************)
(* Calls of normalizeBackupScheduleConfig on stored values of any shape.   *)
(***************************************************************************)
\* the object with the one field, or with none when the option is empty
OptionalField(field, option) ==
  IF Len(option) = 1 THEN [x \in {field} |-> option[1]] ELSE <<>>

\* the stored values that are objects: each field absent (or not of its
\* type), valid, or invalid
RawObjects ==
  { OptionalField("version", version)
      @@ OptionalField("enabledCadences", enabledCadences)
      @@ OptionalField("timezone", timezone)
      @@ OptionalField("anchorLocalDate", anchorLocalDate)
      @@ OptionalField("updatedAt", updatedAt) :
      version \in {<<>>, <<BACKUP_SCHEDULE_VERSION>>, <<99>>},
      enabledCadences \in {<<>>, << <<>> >>, << <<InvalidCadence>> >>,
                           << <<"weekly", "daily", "weekly">> >>,
                           << <<"monthly", InvalidCadence, "biweekly">> >>,
                           << <<"monthly", "biweekly", "weekly", "daily">> >>},
      timezone \in {<<>>, <<0 - 1>>, <<InvalidTimezone>>},
      anchorLocalDate \in {<<>>, <<[year |-> 2026, month |-> 2, day |-> 19]>>,
                           <<[year |-> 2026, month |-> 2, day |-> 30]>>},
      updatedAt \in {<<>>, <<0>>} }

NormalizeInit ==
  /\ SysInit
  /\ probe \in [fn               : {"normalizeBackupScheduleConfig"},
                done             : {FALSE},
                value            : RawObjects \cup {NotAnObject},
                timezoneFallback : {0 - 1, InvalidTimezone},
                now              : 0 .. 1,
                out              : {NotAnObject}]

CallNormalizeBackupScheduleConfig ==
  /\ probe.fn = "normalizeBackupScheduleConfig"
  /\ ~probe.done
  /\ probe' = [probe EXCEPT
                 !.done = TRUE,
                 !.out = normalizeBackupScheduleConfig(probe.value,
                                                       probe.timezoneFallback,
                                                       probe.now)]
  /\ UNCHANGED sysvars

NormalizeNext == CallNormalizeBackupScheduleConfig

SpecNormalize == NormalizeInit /\ [][NormalizeNext]_vars

(***************************************************************************)
(* The slot-based service: distributed time slots.                         *)
(* An instant is a number of whole hours since 1970-01-01T00:00Z; a string  *)
(* is the sequence of its character codes; a 32-bit unsigned number is kept *)
(* as its two 16-bit halves.                                               *)
(***************************************************************************)
HOURS_PER_DAY == 24

DAYS_PER_WEEK == 7

HOURS_PER_WEEK == HOURS_PER_DAY * DAYS_PER_WEEK

\* 0x811c9dc5
FNV1A_OFFSET_BASIS == [hi |-> 33052, lo |-> 40389]

\* 0x01000193 = 2^24 + 403
FNV1A_PRIME == [shift |-> 24, low |-> 403]

\* "datocms-backup-distribution-v1"
DISTRIBUTION_HASH_SALT ==
  <<100, 97, 116, 111, 99, 109, 115, 45, 98, 97, 99, 107, 117, 112, 45, 100,
    105, 115, 116, 114, 105, 98, 117, 116, 105, 111, 110, 45, 118, 49>>

\* the character codes of the strings that are hashed
CharCodes(string) ==
  CASE string = ":"           -> <<58>>
    [] string = "daily"       -> <<100, 97, 105, 108, 121>>
    [] string = "weekly"      -> <<119, 101, 101, 107, 108, 121>>
    [] string = "test-token"  -> <<116, 101, 115, 116, 45, 116, 111, 107, 101, 110>>
    [] string = "token"       -> <<116, 111, 107, 101, 110>>
    [] string = "other-token" -> <<111, 116, 104, 101, 114, 45, 116, 111, 107, 101, 110>>

RECURSIVE BitXor(_, _)
\* a ^ b, for non-negative a and b
BitXor(a, b) ==
  IF a = 0 THEN b
  ELSE IF b = 0 THEN a
  ELSE 2 * BitXor(a \div 2, b \div 2) + (IF a % 2 = b % 2 THEN 0 ELSE 1)

\* Math.imul(hash, FNV1A_PRIME), kept to 32 bits
Imul(hash) ==
  LET low   == hash.lo * FNV1A_PRIME.low
      high  == hash.hi * FNV1A_PRIME.low + low \div 65536 + (hash.lo % 256) * 256
  IN [hi |-> high % 65536, lo |-> low % 65536]

RECURSIVE HashFrom(_, _, _)
\* the body of the loop of hashString, from the character at `index`
HashFrom(hash, input, index) ==
  IF index > Len(input) THEN hash
  ELSE LET next == Imul([hash EXCEPT !.lo = BitXor(@, input[index])])
       IN IF next.hi < 65536 /\ next.lo < 65536
            THEN HashFrom(next, input, index + 1)
            ELSE hash

\* hashString: FNV-1a over the UTF-16 code units
hashString(input) == HashFrom(FNV1A_OFFSET_BASIS, input, 1)

\* `${DISTRIBUTION_HASH_SALT}:${scope}:${apiToken}`
buildDistributionSeed(scope, apiToken) ==
  DISTRIBUTION_HASH_SALT \o CharCodes(":") \o CharCodes(scope)
    \o CharCodes(":") \o CharCodes(apiToken)

\* hash % n with the hash read as a signed 32-bit integer (no `>>> 0`): the
\* remainder takes the sign of the hash
HashMod_Signed(hash, n) ==
  LET unsigned == ((hash.hi % n) * (65536 % n) + (hash.lo % n)) % n
      modulus  == ((65536 % n) * (65536 % n)) % n
  IN IF hash.hi < 32768 THEN unsigned
     ELSE 0 - ((modulus + n - unsigned) % n)

\* hash % n, for n below 2^15
HashMod(hash, n) == ((hash.hi % n) * (65536 % n) + (hash.lo % n)) % n

\* now.getUTCHours()
getUTCHours(now) == now % HOURS_PER_DAY

\* now.getUTCDay()
getUTCDay(now) == UtcWeekday(now \div HOURS_PER_DAY)

\* slotWeekdayUtc: null
NoWeekday == 0 - 1

\* getDistributedScheduleWindow whose slot moves with the hour of the call
getDistributedScheduleWindow_Drifting(scope, apiToken, now) ==
  LET hash == hashString(buildDistributionSeed(scope, apiToken))
      weeklySlot == HashMod(hash, HOURS_PER_WEEK)
  IN [slotHourUtc       |-> (HashMod(hash, HOURS_PER_DAY) + getUTCHours(now)) % HOURS_PER_DAY,
      slotWeekdayUtc    |-> IF scope = "daily" THEN NoWeekday
                            ELSE weeklySlot \div HOURS_PER_DAY,
      currentHourUtc    |-> getUTCHours(now),
      currentWeekdayUtc |-> getUTCDay(now)]

getDistributedScheduleWindow(scope, apiToken, now) ==
  LET currentHourUtc    == getUTCHours(now)
      currentWeekdayUtc == getUTCDay(now)
      hash              == hashString(buildDistributionSeed(scope, apiToken))
      weeklySlot        == HashMod(hash, HOURS_PER_WEEK)
  IN IF scope = "daily"
       THEN [slotHourUtc       |-> HashMod(hash, HOURS_PER_DAY),
             slotWeekdayUtc    |-> NoWeekday,
             currentHourUtc    |-> currentHourUtc,
             currentWeekdayUtc |-> currentWeekdayUtc]
       ELSE [slotHourUtc       |-> weeklySlot % HOURS_PER_DAY,
             slotWeekdayUtc    |-> weeklySlot \div HOURS_PER_DAY,
             currentHourUtc    |-> currentHourUtc,
             currentWeekdayUtc |-> currentWeekdayUtc]

\* the scopes of the slot-based service
BackupScopes == {"daily", "weekly"}

\* the identity tokens of three deployments
SlotTokens == {"test-token", "token", "other-token"}

\* 2026-02-26T00:00Z
FirstSlotHour == DaysFromCivil(2026, 2, 26) * HOURS_PER_DAY

\* the instants of the calls: the hours of a week
SlotInstants == {FirstSlotHour + h : h \in 0 .. MaxSlotHour}

\* later instants: an hour, a day, and 120 days after
LaterInstants(now) == {now + 1, now + HOURS_PER_DAY, now + 120 * HOURS_PER_DAY}

WindowInit ==
  /\ SysInit
  /\ \E now \in SlotInstants :
       probe \in [fn       : {"getDistributedScheduleWindow"},
                  done     : {FALSE},
                  scope    : BackupScopes,
                  apiToken : SlotTokens,
                  first    : {now},
                  second   : LaterInstants(now),
                  out      : {<<>>}]

\* getDistributedScheduleWindow called for the two instants
CallGetDistributedScheduleWindow ==
  /\ probe.fn = "getDistributedScheduleWindow"
  /\ ~probe.done
  /\ probe' = [probe EXCEPT
                 !.done = TRUE,
                 !.out = <<getDistributedScheduleWindow(probe.scope, probe.apiToken,
                                                        probe.first),
                           getDistributedScheduleWindow(probe.scope, probe.apiToken,
                                                        probe.second)>>]
  /\ UNCHANGED sysvars

WindowNext == CallGetDistributedScheduleWindow

SpecWindow == WindowInit /\ [][WindowNext]_vars

(***************************************************************************)
(* The slot-based service: a scheduled run of one scope.                   *)
(***************************************************************************)
\* isDistributedScheduleDue comparing only the hour in hourly mode
isDistributedScheduleDue_HourOnly(scope, schedule, cadence) ==
  IF cadence = "daily"
    THEN scope = "daily" \/ schedule.currentWeekdayUtc = schedule.slotWeekdayUtc
  ELSE schedule.currentHourUtc = schedule.slotHourUtc

isDistributedScheduleDue(scope, schedule, cadence) ==
  IF cadence = "daily"
    THEN IF scope = "daily" THEN TRUE
         ELSE schedule.currentWeekdayUtc = schedule.slotWeekdayUtc
  ELSE IF scope = "daily"
    THEN schedule.currentHourUtc = schedule.slotHourUtc
  ELSE /\ schedule.currentHourUtc = schedule.slotHourUtc
       /\ schedule.currentWeekdayUtc = schedule.slotWeekdayUtc

\* the modes of the scheduler: a trigger every hour, or one a day
ScheduledCadences == {"hourly", "daily"}

\* an earlier weekly backup
OldWeeklyBackup ==
  [id |-> EnvId(getEnvironmentPrefix("weekly"), [year |-> 2026, month |-> 2, day |-> 19]),
   primary |-> FALSE]

\* the environments of a project before a slot-based run: the primary one
\* alone, or with an earlier backup of each scope
SlotEnvironments ==
  {<<[id |-> MainEnvId, primary |-> TRUE]>>,
   <<[id |-> MainEnvId, primary |-> TRUE], OldDailyBackup, OldWeeklyBackup>>}

\* getDateSuffix() at the instant: the UTC date
SlotDateSuffix(now) == CivilFromDays(now \div HOURS_PER_DAY)

\* environments.find(...): the first previous backup of the prefix, if any
PreviousUnusedBackup(envs, prefix) ==
  IF PreviousBackups(envs, prefix) = <<>> THEN NoEnvId
  ELSE PreviousBackups(envs, prefix)[1]

SlotInit ==
  /\ clock = 0
  /\ processEnv = "token"
  /\ pluginId = "plugin"
  /\ siteTimezone = DEFAULT_TIMEZONE
  /\ backupSchedule = InitialSchedule
  /\ automaticBackupsSchedule = EmptyScheduleState
  /\ environments \in SlotEnvironments
  /\ pass = [p \in Triggers |-> IdlePass]
  /\ faults = 0
  /\ runs = 0
  /\ hist = InitHist
  /\ probe \in [fn       : {"runScheduledScopedBackup"},
                pc       : {"start"},
                scope    : BackupScopes,
                cadence  : ScheduledCadences,
                apiToken : SlotTokens,
                now      : SlotInstants,
                schedule : {NotAnObject},
                status   : {""},
                calls    : {{}},
                previousUnusedBackup : {NoEnvId},
                createdEnvironmentId : {NoEnvId}]

SlotUnchanged ==
  UNCHANGED <<clock, processEnv, pluginId, siteTimezone, backupSchedule,
              automaticBackupsSchedule, pass, faults, runs, hist>>

\* runScheduledScopedBackup up to the due test: skipped, or on to the rotation
StartScheduledScopedBackup ==
  /\ probe.fn = "runScheduledScopedBackup"
  /\ probe.pc = "start"
  /\ LET schedule == getDistributedScheduleWindow(probe.scope, probe.apiToken, probe.now)
     IN probe' = IF ~isDistributedScheduleDue(probe.scope, schedule, probe.cadence)
                   THEN [probe EXCEPT !.schedule = schedule,
                                      !.status = "skipped",
                                      !.pc = "returned"]
                   ELSE [probe EXCEPT !.schedule = schedule, !.pc = "list"]
  /\ UNCHANGED environments
  /\ SlotUnchanged

\* executeScopedBackup of the slot-based service: environments.list, the
\* primary environment and the previous backup
SlotListEnvironments ==
  /\ probe.fn = "runScheduledScopedBackup"
  /\ probe.pc = "list"
  /\ LET previous == PreviousUnusedBackup(environments, getEnvironmentPrefix(probe.scope))
     IN probe' = IF ~HasPrimary(environments)
                   THEN [probe EXCEPT !.calls = @ \cup {"environments.list"},
                                      !.status = "thrown",
                                      !.pc = "returned"]
                   ELSE [probe EXCEPT !.calls = @ \cup {"environments.list"},
                                      !.previousUnusedBackup = previous,
                                      !.pc = IF previous = NoEnvId THEN "fork"
                                             ELSE "destroy"]
  /\ UNCHANGED environments
  /\ SlotUnchanged

\* client.environments.destroy(previousUnusedBackup.id)
SlotDestroyEnvironment ==
  /\ probe.fn = "runScheduledScopedBackup"
  /\ probe.pc = "destroy"
  /\ environments' = WithoutEnv(environments, probe.previousUnusedBackup)
  /\ probe' = [probe EXCEPT !.calls = @ \cup {"environments.destroy"}, !.pc = "fork"]
  /\ SlotUnchanged

\* client.environments.fork, and the return of the executed result
SlotForkEnvironment ==
  /\ probe.fn = "runScheduledScopedBackup"
  /\ probe.pc = "fork"
  /\ LET createdEnvironmentId ==
           EnvId(getEnvironmentPrefix(probe.scope), SlotDateSuffix(probe.now))
     IN IF createdEnvironmentId \in EnvIds(environments)
          THEN /\ environments' = environments
               /\ probe' = [probe EXCEPT !.calls = @ \cup {"environments.fork"},
                                         !.status = "thrown",
                                         !.pc = "returned"]
          ELSE /\ environments' =
                    Append(environments, [id |-> createdEnvironmentId, primary |-> FALSE])
               /\ probe' = [probe EXCEPT !.calls = @ \cup {"environments.fork"},
                                         !.createdEnvironmentId = createdEnvironmentId,
                                         !.status = "executed",
                                         !.pc = "returned"]
  /\ SlotUnchanged

SlotNext ==
  \/ StartScheduledScopedBackup
  \/ SlotListEnvironments
  \/ SlotDestroyEnvironment
  \/ SlotForkEnvironment

SpecSlot == SlotInit /\ [][SlotNext]_vars

(***************************************************************************)
(* getBackupStatus: the slots reported for the cadences.  An environment   *)
(* of the listing carries created_at, the instant of its creation in       *)
(* clock ticks.                                                            *)
(***************************************************************************)
MaxStatusEnvironments == 3

\* environments.filter(!primary && id.startsWith(`${prefix}-`))
RECURSIVE MatchingEnvironments(_, _)
MatchingEnvironments(envs, prefix) ==
  IF envs = <<>> THEN <<>>
  ELSE IF ~Head(envs).primary /\ StartsWithPrefix(Head(envs).id, prefix)
         THEN <<Head(envs)>> \o MatchingEnvironments(Tail(envs), prefix)
       ELSE MatchingEnvironments(Tail(envs), prefix)

\* the place of an environment in a listing sorted by created_at, latest
\* first; the sort is stable
RECURSIVE InsertByCreatedAt(_, _)
InsertByCreatedAt(sorted, environment) ==
  IF sorted = <<>> THEN <<environment>>
  ELSE IF Head(sorted).created_at - environment.created_at < 0
         THEN <<environment>> \o sorted
       ELSE <<Head(sorted)>> \o InsertByCreatedAt(Tail(sorted), environment)

\* .sort((left, right) => right.created_at - left.created_at)
RECURSIVE SortByCreatedAt(_)
SortByCreatedAt(envs) ==
  IF envs = <<>> THEN <<>>
  ELSE InsertByCreatedAt(SortByCreatedAt(SubSeq(envs, 1, Len(envs) - 1)),
                         envs[Len(envs)])

\* getLatestBackupCreatedAtForScope without the sort
getLatestBackupCreatedAtForScope_FirstListed(envs, scope) ==
  LET matching == MatchingEnvironments(envs, getEnvironmentPrefix(scope))
  IN IF matching = <<>> THEN NoInstant ELSE matching[1].created_at

getLatestBackupCreatedAtForScope(envs, scope) ==
  LET matching == SortByCreatedAt(MatchingEnvironments(envs, getEnvironmentPrefix(scope)))
  IN IF matching = <<>> THEN NoInstant ELSE matching[1].created_at

\* the instant of 00:00 UTC of a local date key; NoInstant for undefined
toUtcDateFromLocalDateKey(localDateKey) ==
  IF ~parseLocalDateKey(localDateKey) THEN NoInstant
  ELSE (buildUtcDateFromLocalParts(localDateKey) - buildUtcDateFromLocalParts(EpochDate))
         * TicksPerDay

\* the slot of one cadence in the result of getBackupStatus
BackupStatusSlot(context, envs, cadence, now) ==
  LET currentLocalDate == toLocalDateKey(now, context.scheduleConfig.timezone)
      enabled          == cadence \in Range(context.scheduleConfig.enabledCadences)
      lastRunLocalDate ==
        getLastRunLocalDateForCadence(context.scheduleState, cadence, now,
                                      context.scheduleConfig.timezone)
      nextDueDate ==
        IF enabled
          THEN getNextDueLocalDate(cadence, context.scheduleConfig.anchorLocalDate,
                                   currentLocalDate, lastRunLocalDate)
          ELSE NoDate
  IN [scope         |-> cadence,
      executionMode |-> "lambda_cron",
      lastBackupAt  |-> getLatestBackupCreatedAtForScope(envs, cadence),
      nextBackupAt  |-> IF nextDueDate # NoDate
                          THEN toUtcDateFromLocalDateKey(nextDueDate)
                          ELSE NoInstant]

BackupStatusSlots(context, envs, now) ==
  [cadence \in Cadences |-> BackupStatusSlot(context, envs, cadence, now)]

\* environments a listing may hold: the primary one, backups whose ids are
\* not in the order of their creation, and a backup promoted to primary
StatusEnvironmentPool ==
  {[id |-> MainEnvId, primary |-> TRUE, created_at |-> 0],
   [id |-> EnvId(getEnvironmentPrefix("daily"), [year |-> 2026, month |-> 2, day |-> 25]),
    primary |-> FALSE, created_at |-> 1],
   [id |-> EnvId(getEnvironmentPrefix("daily"), [year |-> 2026, month |-> 2, day |-> 26]),
    primary |-> FALSE, created_at |-> 3],
   [id |-> EnvId(getEnvironmentPrefix("daily"), [year |-> 2026, month |-> 2, day |-> 20]),
    primary |-> FALSE, created_at |-> 5],
   [id |-> EnvId(getEnvironmentPrefix("weekly"), [year |-> 2026, month |-> 2, day |-> 19]),
    primary |-> FALSE, created_at |-> 2],
   [id |-> EnvId(getEnvironmentPrefix("daily"), [year |-> 2026, month |-> 2, day |-> 24]),
    primary |-> TRUE, created_at |-> 7]}

\* the listings of up to MaxStatusEnvironments environments, in any order
StatusEnvironmentLists ==
  {envs \in UNION {[1 .. n -> StatusEnvironmentPool] : n \in 1 .. MaxStatusEnvironments} :
     \A i, j \in DOMAIN envs : i # j => envs[i] # envs[j]}

\* the State of a deployment whose daily and weekly cadences ran on EpochDate
RanTodayState ==
  [EmptyScheduleState EXCEPT
     !.lastRunLocalDateByCadence = MapSet(MapSet(EmptyMap, "daily", EpochDate),
                                          "weekly", EpochDate)]

\* the State written by the slot-based service for a daily run of EpochDate
LegacyDailyState == [EmptyScheduleState EXCEPT !.dailyLastRunDate = EpochDate]

StatusStates == {EmptyScheduleState, RanTodayState, LegacyDailyState}

\* the context of a status call with the given State
StatusContext(scheduleState) ==
  [scheduleConfig |-> [FutureSchedule EXCEPT !.timezone = DEFAULT_TIMEZONE],
   scheduleState  |-> scheduleState]

StatusInit ==
  /\ SysInit
  /\ probe \in [fn            : {"getBackupStatus"},
                done          : {FALSE},
                environments  : StatusEnvironmentLists,
                scheduleState : StatusStates,
                otherState    : StatusStates,
                now           : 0 .. 1,
                out           : {<<>>}]

\* the slots of two status calls that differ in the State only
CallGetBackupStatus ==
  /\ probe.fn = "getBackupStatus"
  /\ ~probe.done
  /\ probe' = [probe EXCEPT
                 !.done = TRUE,
                 !.out = <<BackupStatusSlots(StatusContext(probe.scheduleState),
                                             probe.environments, probe.now),
                           BackupStatusSlots(StatusContext(probe.otherState),
                                             probe.environments, probe.now)>>]
  /\ UNCHANGED sysvars

StatusNext == CallGetBackupStatus

SpecStatus == StatusInit /\ [][StatusNext]_vars

(***************************************************************************)
(* The platform adapters of the scheduled run: what each answers for the   *)
(* outcome of runScheduledBackups.  An outcome is the result returned, or  *)
(* the error thrown.                                                       *)
(***************************************************************************)
\* the run whose job threw
ThrownOutcome == [thrown |-> TRUE, result |-> [skipped |-> FALSE, results |-> <<>>]]

\* createErrorPayload / buildErrorEnvelope, with the result attached if any
ErrorResponse(statusCode, code, attached) ==
  [statusCode |-> statusCode, ok |-> FALSE, code |-> code, result |-> attached]

\* {ok: true, result} with status 200
SuccessResponse(result) ==
  [statusCode |-> 200, ok |-> TRUE, code |-> "", result |-> <<result>>]

\* createScheduledBackupsHandler: runJob and handleSuccess of an authenticated
\* POST, and the catch of createAuthenticatedJobHandler
VercelScheduledBackups(outcome) ==
  IF outcome.thrown THEN ErrorResponse(500, "INTERNAL_SERVER_ERROR", <<>>)
  ELSE IF hasScheduledBackupFailures(outcome.result.results)
    THEN ErrorResponse(500, "SCHEDULED_BACKUPS_PARTIAL_FAILURE", <<outcome.result>>)
  ELSE SuccessResponse(outcome.result)

\* runScheduledBackupsJob of the Netlify function
runScheduledBackupsJob(outcome) ==
  IF outcome.thrown THEN ErrorResponse(500, "INTERNAL_SERVER_ERROR", <<>>)
  ELSE IF hasScheduledBackupFailures(outcome.result.results)
    THEN ErrorResponse(500, "SCHEDULED_BACKUPS_PARTIAL_FAILURE", <<outcome.result>>)
  ELSE SuccessResponse(outcome.result)

\* fetch of the Cloudflare worker on /api/jobs/scheduled-backups, once
\* authenticated
CloudflareScheduledBackupsRoute(outcome) ==
  IF outcome.thrown THEN ErrorResponse(500, "INTERNAL_SERVER_ERROR", <<>>)
  ELSE IF hasScheduledBackupFailures(outcome.result.results)
    THEN ErrorResponse(500, "SCHEDULED_BACKUPS_PARTIAL_FAILURE", <<outcome.result>>)
  ELSE SuccessResponse(outcome.result)

\* scheduled of the Cloudflare worker on the daily cron: how the promise
\* handed to waitUntil settles
CloudflareScheduled(outcome) ==
  IF outcome.thrown THEN "rejected"
  ELSE IF ~hasScheduledBackupFailures(outcome.result.results) THEN "resolved"
  ELSE "rejected"

\* the entries a run returns for a choice of outcome per cadence, in the
\* order of BACKUP_CADENCES; a cadence that was not due has none
RECURSIVE ResultEntries(_, _)
ResultEntries(statusOf, index) ==
  IF index > Len(BACKUP_CADENCES) THEN <<>>
  ELSE (IF statusOf[BACKUP_CADENCES[index]] = "none" THEN <<>>
        ELSE <<[scope  |-> BACKUP_CADENCES[index],
                status |-> statusOf[BACKUP_CADENCES[index]]]>>)
       \o ResultEntries(statusOf, index + 1)

\* the outcomes of a scheduled run
RunOutcomes ==
  {ThrownOutcome} \cup
  {[thrown |-> FALSE,
    result |-> [skipped |-> ResultEntries(statusOf, 1) = <<>>,
                results |-> ResultEntries(statusOf, 1)]] :
     statusOf \in [Cadences -> {"none", "executed", "failed"}]}

Adapters == {"vercel", "netlify", "cloudflare-route", "cloudflare-cron"}

AdapterInit ==
  /\ SysInit
  /\ probe \in [fn      : {"scheduledBackupsAdapter"},
                done    : {FALSE},
                adapter : Adapters,
                outcome : RunOutcomes,
                out     : {<<>>}]

\* the adapter answers for the outcome of the run
CallScheduledBackupsAdapter ==
  /\ probe.fn = "scheduledBackupsAdapter"
  /\ ~probe.done
  /\ probe' = [probe EXCEPT
                 !.done = TRUE,
                 !.out = CASE probe.adapter = "vercel" ->
                                <<VercelScheduledBackups(probe.outcome)>>
                           [] probe.adapter = "netlify" ->
                                <<runScheduledBackupsJob(probe.outcome)>>
                           [] probe.adapter = "cloudflare-route" ->
                                <<CloudflareScheduledBackupsRoute(probe.outcome)>>
                           [] probe.adapter = "cloudflare-cron" ->
                                <<CloudflareScheduled(probe.outcome)>>]
  /\ UNCHANGED sysvars

AdapterNext == CallScheduledBackupsAdapter

SpecAdapter == AdapterInit /\ [][AdapterNext]_vars

(***************************************************************************)
(* The HTTP endpoints: method check, shared-secret check, job.             *)
(***************************************************************************)
\* String.prototype.trim on the secrets of the model
Trim(string) == IF string = "   " THEN "" ELSE string

\* resolveBackupsSharedSecret: the trimmed argument, else the trimmed
\* DATOCMS_BACKUPS_SHARED_SECRET of process.env, else "" for undefined
resolveBackupsSharedSecret(sharedSecret, envSecret) ==
  IF Trim(sharedSecret) # "" THEN Trim(sharedSecret)
  ELSE IF Trim(envSecret) # "" THEN Trim(envSecret)
  ELSE ""

\* validateBackupsSharedSecret: the header is <<>> when absent, <<value>>
\* otherwise
validateBackupsSharedSecret(header, sharedSecret, envSecret) ==
  LET resolvedSecret == resolveBackupsSharedSecret(sharedSecret, envSecret)
  IN IF resolvedSecret = ""
       THEN [ok |-> FALSE, statusCode |-> 500, code |-> "MISSING_SHARED_SECRET_CONFIG"]
     ELSE IF header # <<resolvedSecret>>
       THEN [ok |-> FALSE, statusCode |-> 401, code |-> "UNAUTHORIZED"]
     ELSE [ok |-> TRUE, statusCode |-> 200, code |-> ""]

\* what a handler did with a request: its answer, whether it evaluated the
\* shared secret and whether it invoked its job or loader
Answer(statusCode, code, authEvaluated, jobInvoked) ==
  [statusCode |-> statusCode, code |-> code,
   authEvaluated |-> authEvaluated, jobInvoked |-> jobInvoked]

\* pluginHealthHandler, createBackupStatusHandler and createBackupNowHandler:
\* OPTIONS, then the method, the secret, the payload, the job
DatocmsHandler(request, sharedSecret) ==
  IF request.method = "OPTIONS" THEN Answer(204, "", FALSE, FALSE)
  ELSE IF request.method # "POST" THEN Answer(405, "METHOD_NOT_ALLOWED", FALSE, FALSE)
  ELSE LET authResult ==
             validateBackupsSharedSecret(request.header, sharedSecret, request.envSecret)
       IN IF ~authResult.ok
            THEN Answer(authResult.statusCode, authResult.code, TRUE, FALSE)
          ELSE IF ~request.validPayload
            THEN Answer(400, "INVALID_PAYLOAD", TRUE, FALSE)
          ELSE Answer(200, "", TRUE, TRUE)

\* createAuthenticatedJobHandler with allowedMethods ["POST"]
createAuthenticatedJobHandler(request) ==
  IF request.method = "OPTIONS" THEN Answer(200, "", FALSE, FALSE)
  ELSE IF request.method # "POST" THEN Answer(405, "METHOD_NOT_ALLOWED", FALSE, FALSE)
  ELSE LET authResult == validateBackupsSharedSecret(request.header, "", request.envSecret)
       IN IF ~authResult.ok
            THEN Answer(authResult.statusCode, authResult.code, TRUE, FALSE)
          ELSE Answer(200, "", TRUE, TRUE)

\* fetch of the Cloudflare worker on /api/jobs/scheduled-backups
CloudflareScheduledBackupsFetch(request) ==
  LET authResult ==
        validateBackupsSharedSecret(request.header, request.bindingSecret,
                                    request.envSecret)
  IN IF ~authResult.ok
       THEN Answer(authResult.statusCode, authResult.code, TRUE, FALSE)
     ELSE Answer(200, "", TRUE, TRUE)

\* the handler a request reaches
HandleRequest(request) ==
  IF request.platform = "cloudflare"
    THEN IF request.endpoint = "scheduled-backups"
           THEN CloudflareScheduledBackupsFetch(request)
           ELSE DatocmsHandler(request, request.bindingSecret)
  ELSE IF request.endpoint = "scheduled-backups"
    THEN createAuthenticatedJobHandler(request)
  ELSE DatocmsHandler(request, "")

HttpMethods == {"GET", "POST", "OPTIONS", "DELETE"}

\* the X-Datocms-Backups-Auth header of a request
AuthHeaders == {<<>>, <<"test-shared-secret">>, <<"superSecretToken">>, <<"wrong">>}

\* the values DATOCMS_BACKUPS_SHARED_SECRET may be given
SecretSettings == {"", "   ", "test-shared-secret"}

\* the routes of each platform
Routes ==
  ({"vercel"} \X {"plugin-health", "backup-status", "backup-now", "scheduled-backups"})
    \cup ({"cloudflare"} \X {"plugin-health", "backup-status", "scheduled-backups"})

HttpInit ==
  /\ SysInit
  /\ \E route \in Routes :
     \E bindingSecret \in (IF route[1] = "cloudflare" THEN SecretSettings ELSE {""}) :
       probe \in [fn            : {"handleRequest"},
                  done          : {FALSE},
                  platform      : {route[1]},
                  endpoint      : {route[2]},
                  method        : HttpMethods,
                  header        : AuthHeaders,
                  bindingSecret : {bindingSecret},
                  envSecret     : SecretSettings,
                  validPayload  : BOOLEAN,
                  out           : {<<>>}]

CallHandleRequest ==
  /\ probe.fn = "handleRequest"
  /\ ~probe.done
  /\ probe' = [probe EXCEPT !.done = TRUE, !.out = <<HandleRequest(probe)>>]
  /\ UNCHANGED sysvars

HttpNext == CallHandleRequest

SpecHttp == HttpInit /\ [][HttpNext]_vars

(***************************************************************************)
(* Scheduled passes of a project whose weekly, biweekly and monthly        *)
(* cadences are enabled, on a due date (2026-02-26) and on the day after.  *)
(***************************************************************************)
MissedAnchors ==
  { [year |-> 2026, month |-> 2, day |-> 19],
    [year |-> 2026, month |-> 2, day |-> 12],
    [year |-> 2026, month |-> 1, day |-> 26] }

MissedSchedules ==
  { [InitialSchedule EXCEPT !.enabledCadences = <<"weekly", "biweekly", "monthly">>,
                            !.anchorLocalDate = a] : a \in MissedAnchors }

\* the weekly backup of the week before
LastWeeksBackup ==
  [id |-> EnvId(getEnvironmentPrefix("weekly"), [year |-> 2026, month |-> 2, day |-> 20]),
   primary |-> FALSE]

MissedInit ==
  /\ clock = 0
  /\ processEnv = "token"
  /\ pluginId = "plugin"
  /\ siteTimezone = DEFAULT_TIMEZONE
  /\ backupSchedule \in MissedSchedules
  /\ automaticBackupsSchedule = EmptyScheduleState
  /\ environments = <<[id |-> MainEnvId, primary |-> TRUE], LastWeeksBackup>>
  /\ pass = [p \in Triggers |-> IdlePass]
  /\ faults = 0
  /\ runs = 0
  /\ hist = InitHist
  /\ probe = NoProbe

SpecMissed == MissedInit /\ [][Next]_vars

(***************************************************************************)
(* Scheduled passes of a project whose primary environment carries the     *)
(* prefix of the daily backups, and which holds backups of every cadence   *)
(* and an environment of its own.                                          *)
(***************************************************************************)
\* a date before the first pass
EarlierDate == [year |-> 2026, month |-> 2, day |-> 20]

PrefixedPrimary ==
  [id |-> EnvId(getEnvironmentPrefix("daily"), [year |-> 2026, month |-> 1, day |-> 1]),
   primary |-> TRUE]

EarlierBackup(cadence) ==
  [id |-> EnvId(getEnvironmentPrefix(cadence), EarlierDate), primary |-> FALSE]

UnrelatedEnvironment == [id |-> EnvId("staging", NoDate), primary |-> FALSE]

FrameEnvironments ==
  <<PrefixedPrimary, EarlierBackup("daily"), EarlierBackup("weekly"),
    EarlierBackup("biweekly"), EarlierBackup("monthly"), UnrelatedEnvironment>>

FrameInit ==
  /\ clock = 0
  /\ processEnv = "token"
  /\ pluginId = "plugin"
  /\ siteTimezone = DEFAULT_TIMEZONE
  /\ backupSchedule = InitialSchedule
  /\ automaticBackupsSchedule = EmptyScheduleState
  /\ environments = FrameEnvironments
  /\ pass = [p \in Triggers |-> IdlePass]
  /\ faults = 0
  /\ runs = 0
  /\ hist = InitHist
  /\ probe = NoProbe

SpecFrame == FrameInit /\ [][Next]_vars

(***************************************************************************)
(* Calls of getLastRunLocalDateForCadence and getDueCadences on States     *)
(* with and without per-cadence entries and legacy fields, at instants of  *)
(* the ISO week 2026-W09 and of the week after.                            *)
(***************************************************************************)
MaxLegacyTick == 9

\* a date string that is no date
NoSuchDate == [year |-> 2026, month |-> 2, day |-> 30]

LegacyStates ==
  { [EmptyScheduleState EXCEPT
       !.lastRunLocalDateByCadence =
          toCadenceMap([c \in {"daily", "weekly"} |->
                          IF c = "daily" THEN daily ELSE weekly], NoDate),
       !.dailyLastRunDate = dailyLastRunDate,
       !.weeklyLastRunKey = weeklyLastRunKey] :
      daily \in {NoDate, [year |-> 2026, month |-> 2, day |-> 26], NoSuchDate},
      weekly \in {NoDate, [year |-> 2026, month |-> 2, day |-> 20], NoSuchDate},
      dailyLastRunDate \in {NoDate, EpochDate, NoSuchDate},
      weeklyLastRunKey \in {NoWeek, [year |-> 2026, week |-> 9],
                            [year |-> 2026, week |-> 10]} }

\* the context of a pass with the given State: every cadence enabled, the
\* weekly one scheduled on Fridays
LegacyContext(scheduleState, tz) ==
  [scheduleConfig |-> [InitialSchedule EXCEPT
                         !.enabledCadences = BACKUP_CADENCES,
                         !.timezone = tz,
                         !.anchorLocalDate = [year |-> 2026, month |-> 2, day |-> 20]],
   scheduleState  |-> scheduleState]

LegacyInit ==
  /\ SysInit
  /\ probe \in [fn            : {"getLastRunLocalDateForCadence"},
                done          : {FALSE},
                scheduleState : LegacyStates,
                cadence       : Cadences,
                now           : 0 .. MaxLegacyTick,
                timezone      : ValidTimezones,
                out           : {[lastRun |-> NoDate, due |-> FALSE]}]

CallGetLastRunLocalDateForCadence ==
  /\ probe.fn = "getLastRunLocalDateForCadence"
  /\ ~probe.done
  /\ probe' = [probe EXCEPT
                 !.done = TRUE,
                 !.out = [lastRun |-> getLastRunLocalDateForCadence(
                                        probe.scheduleState, probe.cadence,
                                        probe.now, probe.timezone),
                          due     |-> probe.cadence \in Range(getDueCadences(
                                        LegacyContext(probe.scheduleState, probe.timezone),
                                        probe.now))]]
  /\ UNCHANGED sysvars

LegacyNext == CallGetLastRunLocalDateForCadence

SpecLegacy == LegacyInit /\ [][LegacyNext]_vars

(***************************************************************************)
(* Properties of the scheduled pass.                                       *)
(***************************************************************************)
\* the cadences of a pass that are recorded in the State as run on local date d
SettledOn(d) == {c \in Cadences : <<c, d>> \in hist.settled}

\* the cadence a pass is executing, if it is executing one
Executing(p) ==
  IF pass[p].pc \in {"list", "destroy", "fork"}
    THEN {pass[p].cadences[pass[p].i]} ELSE {}

C1_WitnessSkipped ==
  \E p \in Triggers :
    /\ pass[p].pc = "skip"
    /\ SettledOn(RunLocalDate(pass[p])) = {"daily", "weekly"}

BackupIdOf(c, t) ==
  [prefix |-> "backup-plugin-" \o c,
   suffix |-> CivilFromDays(DaysFromCivil(EpochDate.year, EpochDate.month, EpochDate.day)
                              + (t \div TicksPerDay))]

\* the backup environments of cadence c that the remote holds
BackupsOf(c) ==
  LET IsBackup(e) == ~e.primary /\ e.id.prefix = "backup-plugin-" \o c
      kept == SelectSeq(environments, IsBackup)
  IN [j \in DOMAIN kept |-> kept[j].id]

\* trigger p made its last remote call, the other trigger's pass is over, the
\* two passes overlapped each other and no third one, on the same UTC date,
\* with no transport fault, and both had cadence c due
RaceOver(p, c) ==
  LET q == Other(p)
  IN /\ pass[p].pc = "persist"
     /\ ~InFlight(q)
     /\ hist.overlaps[p] = 1
     /\ ~hist.faulted[p]
     /\ hist.ended[q].overlaps = 1
     /\ hist.ended[q].utcDate = getDateSuffix(pass[p].now)
     /\ c \in Range(pass[p].cadences) \cap Range(hist.ended[q].cadences)

\* C3: when two passes overlap on the same UTC date and both execute the same
\* due cadence, then once both made their last remote call, with no remote
\* fault other than "already exists" / "does not exist", the remote holds
\* exactly one backup environment of that cadence, named after the UTC date,
\* and the pass has a result for every due cadence (no fatal error).
C3_ExactlyOneAfterRace ==
  \A p \in Triggers : \A c \in Cadences :
    RaceOver(p, c) =>
      /\ BackupsOf(c) = <<BackupIdOf(c, pass[p].now)>>
      /\ Len(pass[p].results) = Len(pass[p].cadences)

\* C3, the part that does not hold, alone: never zero
C3_NeverZeroAfterRace ==
  \A p \in Triggers : \A c \in Cadences : RaceOver(p, c) => BackupsOf(c) # <<>>

\* C3, the rest: never two, the id, and the loser's per-cadence failure
C3_RestAfterRace ==
  \A p \in Triggers : \A c \in Cadences :
    RaceOver(p, c) =>
      /\ BackupsOf(c) \in {<<>>, <<BackupIdOf(c, pass[p].now)>>}
      /\ Len(pass[p].results) = Len(pass[p].cadences)

\* C4: isCadenceDueNow returns false whenever lastRunLocalDate equals
\* currentLocalDate, for every cadence and anchor, also on a date on which
\* the cadence is scheduled; when lastRunLocalDate is absent or differs it
\* returns exactly whether the cadence is scheduled on currentLocalDate.
C4_DueUnlessRanToday ==
  (probe.fn = "isCadenceDueNow" /\ probe.done) =>
    IF probe.lastRunLocalDate = probe.currentLocalDate
      THEN probe.out = FALSE
      ELSE probe.out = isCadenceScheduledOnDate(probe.cadence, probe.anchorLocalDate,
                                                probe.currentLocalDate)

\* a call on a date on which a monthly cadence is scheduled and already ran
C4_Witness ==
  /\ probe.fn = "isCadenceDueNow"
  /\ probe.done
  /\ probe.cadence = "monthly"
  /\ probe.lastRunLocalDate = probe.currentLocalDate
  /\ isCadenceScheduledOnDate(probe.cadence, probe.anchorLocalDate,
                              probe.currentLocalDate)
  /\ probe.out = FALSE

\* C5: a remote failure while executing one due cadence never prevents another
\* due cadence of the pass from being executed: at the end of the loop the
\* result list holds exactly one entry per due cadence, in order, tagged
\* failed for the cadences whose remote call failed and executed for the
\* others, hasScheduledBackupFailures tells whether one failed, and the State
\* about to be written holds the updates of the cadences that executed.
C5_FailureIsolated ==
  \A p \in Triggers :
    pass[p].pc = "persist" =>
      LET pr == pass[p]
      IN /\ Len(pr.results) = Len(pr.cadences)
         /\ \A j \in DOMAIN pr.results :
              /\ pr.results[j].scope = pr.cadences[j]
              /\ pr.results[j].status =
                   IF pr.cadences[j] \in hist.failed[p] THEN "failed" ELSE "executed"
              /\ pr.results[j].status = "executed" =>
                   /\ pr.cadences[j] \in
                        DOMAIN NextScheduleState(pr).lastRunLocalDateByCadence
                   /\ NextScheduleState(pr).lastRunLocalDateByCadence[pr.cadences[j]]
                        = CivilFromDays(DayOfTick(pr.now, pr.scheduleConfig.timezone))
                   /\ NextScheduleState(pr).lastManagedEnvironmentIdByCadence[pr.cadences[j]]
                        = BackupIdOf(pr.cadences[j], pr.now)
         /\ hasScheduledBackupFailures(pr.results) = (hist.failed[p] # {})

\* a pass with two due cadences ends its loop: the first failed, the second
\* executed afterwards
C5_Witness ==
  \E p \in Triggers :
    /\ pass[p].pc = "persist"
    /\ Len(pass[p].cadences) = 2
    /\ pass[p].results[1].status = "failed"
    /\ pass[p].results[2].status = "executed"

\* C6: within one execution of a cadence every destroy of a prior matching
\* environment has returned before the fork is issued, the fork is issued
\* only if every destroy succeeded, and deletedEnvironmentId of the result is
\* an environment destroyed in this execution, null exactly when no prior
\* environment matched.
C6_DestroyBeforeFork ==
  \A p \in Triggers :
    LET pr == pass[p]
    IN /\ pr.pc = "fork" =>
            /\ hist.destroyed[p] = Range(hist.listed[p])
            /\ pr.cadences[pr.i] \notin hist.failed[p]
       /\ (/\ pr.pc \in {"list", "persist"}
           /\ pr.results # <<>>
           /\ pr.results[Len(pr.results)].status = "executed") =>
            LET deleted == pr.results[Len(pr.results)].result.deletedEnvironmentId
            IN /\ hist.destroyed[p] = Range(hist.listed[p])
               /\ (deleted = NoEnvId) = (hist.listed[p] = <<>>)
               /\ deleted # NoEnvId => deleted \in hist.destroyed[p]

\* an execution that destroyed two prior environments has returned its result
C6_Witness ==
  \E p \in Triggers :
    /\ pass[p].pc \in {"list", "persist"}
    /\ pass[p].results # <<>>
    /\ pass[p].results[Len(pass[p].results)].status = "executed"
    /\ Cardinality(hist.destroyed[p]) = 2

\* the pass of trigger p has overlapped no other pass so far
Solo(p) == InFlight(p) /\ hist.overlaps[p] = 0

\* C7: after a successful execution of cadence C by a pass that no other pass
\* overlaps, whatever number of prior backup environments of C there were,
\* the remote holds exactly one non-primary environment whose id starts with
\* backup-plugin-<C>-, and its id is backup-plugin-<C>-<UTC date of now>; so
\* also when the execution repeats one of the same UTC date.
C7_ExactlyOneBackupAfterExecution ==
  \A p \in Triggers :
    Solo(p) =>
      \A j \in DOMAIN pass[p].results :
        pass[p].results[j].status = "executed" =>
          /\ BackupsOf(pass[p].results[j].scope)
               = <<BackupIdOf(pass[p].results[j].scope, pass[p].now)>>
          /\ pass[p].results[j].result.createdEnvironmentId
               = BackupIdOf(pass[p].results[j].scope, pass[p].now)

\* a pass alone executed a cadence that had two prior backup environments
C7_Witness ==
  \E p \in Triggers :
    /\ Solo(p)
    /\ pass[p].results # <<>>
    /\ pass[p].results[Len(pass[p].results)].status = "executed"
    /\ Len(hist.listed[p]) = 2
    /\ pass[p].pc \in {"list", "persist"}

\* a pass alone executed a cadence again on the same UTC date: the environment
\* it destroyed had the id of the one it created
C7_WitnessRepeated ==
  \E p \in Triggers :
    /\ Solo(p)
    /\ \E j \in DOMAIN pass[p].results :
         /\ pass[p].results[j].status = "executed"
         /\ pass[p].results[j].result.deletedEnvironmentId
              = pass[p].results[j].result.createdEnvironmentId

C9_WrittenStatePerCadence ==
  [][ \A p \in Triggers :
        (pass[p].pc = "persist" /\ pass'[p].pc = "idle" /\ faults' = faults) =>
          LET pr   == pass[p]
              new  == automaticBackupsSchedule'
              read == pr.scheduleState
          IN \A j \in DOMAIN pr.results :
               LET c == pr.results[j].scope
               IN IF pr.results[j].status = "executed"
                    THEN /\ MapGet(new.lastRunLocalDateByCadence, c, NoDate)
                              = CivilFromDays(DayOfTick(pr.now, pr.scheduleConfig.timezone))
                         /\ MapGet(new.lastManagedEnvironmentIdByCadence, c, NoEnvId)
                              = pr.results[j].result.createdEnvironmentId
                         /\ MapGet(new.lastExecutionModeByCadence, c, "") = "lambda_cron"
                         /\ c \notin DOMAIN new.lastErrorByCadence
                    ELSE /\ MapGet(new.lastErrorByCadence, c, "") = pr.results[j].error
                         /\ pr.results[j].error # ""
                         /\ MapGet(new.lastRunLocalDateByCadence, c, NoDate)
                              = MapGet(read.lastRunLocalDateByCadence, c, NoDate)
                         /\ MapGet(new.lastRunAtByCadence, c, NoInstant)
                              = MapGet(read.lastRunAtByCadence, c, NoInstant)
                         /\ MapGet(new.lastManagedEnvironmentIdByCadence, c, NoEnvId)
                              = MapGet(read.lastManagedEnvironmentIdByCadence, c, NoEnvId)
    ]_vars

\* the written State holds a cadence that executed after it had failed, beside
\* one that failed after it had executed
C9_Witness ==
  /\ ~(\E p \in Triggers : InFlight(p))
  /\ \E c, d \in Cadences :
       /\ c \in DOMAIN automaticBackupsSchedule.lastRunLocalDateByCadence
       /\ c \notin DOMAIN automaticBackupsSchedule.lastErrorByCadence
       /\ hist.lastFailure.cadences = {d}
       /\ d \in DOMAIN automaticBackupsSchedule.lastErrorByCadence
       /\ d \in DOMAIN automaticBackupsSchedule.lastRunLocalDateByCadence

EnvironmentCalls == {"environments.list", "environments.destroy", "environments.fork"}

\* the enabled cadences of the context of pr that are due at its instant
DueNow(pr) ==
  {c \in Range(pr.scheduleConfig.enabledCadences) :
     /\ isCadenceScheduledOnDate(c, pr.scheduleConfig.anchorLocalDate,
                                 CivilFromDays(DayOfTick(pr.now, pr.scheduleConfig.timezone)))
     /\ getLastRunLocalDateForCadence(pr.scheduleState, c, pr.now,
                                      pr.scheduleConfig.timezone)
          # CivilFromDays(DayOfTick(pr.now, pr.scheduleConfig.timezone))}

\* a step of the invocation of trigger p that finds nothing due, or returns
\* after finding nothing due
SkippingStep(p) ==
  \/ pass[p].pc # "skip" /\ pass'[p].pc = "skip"
  \/ pass[p].pc = "skip" /\ pass'[p].pc = "idle"

\* C11, the result and the environment calls: a scheduled pass is skipped
\* exactly when no enabled cadence is due; it then has an empty result list
\* and has issued no list, destroy or fork call.
C11_SkippedPassCallsNoEnvironment ==
  \A p \in Triggers :
    /\ (pass[p].kind = "scheduled" /\ pass[p].pc \in {"skip", "list"}
          /\ pass[p].results = <<>>) =>
         (pass[p].pc = "skip") = (DueNow(pass[p]) = {})
    /\ pass[p].pc = "skip" =>
         /\ pass[p].kind = "scheduled"
         /\ pass[p].results = <<>>
         /\ pass[p].cadences = <<>>
         /\ hist.calls[p] \cap EnvironmentCalls = {}

\* C11: when no enabled cadence is due, runScheduledBackups returns skipped
\* with an empty result list, issues no call to the remote environment API
\* and does not write the State: no step of the pass changes the persisted
\* State.
C11_SkippedPassIsNoOp ==
  [][ \A p \in Triggers :
        SkippingStep(p) =>
          /\ automaticBackupsSchedule' = automaticBackupsSchedule
          /\ environments' = environments
          /\ pass[p].results = <<>> /\ pass'[p].results = <<>>
          /\ hist.calls[p] \cap EnvironmentCalls = {}
    ]_vars

\* a scheduled pass found nothing due: the cadence ran on this local date
C11_Witness ==
  \E p \in Triggers :
    /\ pass[p].pc = "skip"
    /\ pass[p].scheduleConfig.enabledCadences # <<>>
    /\ pass[p].scheduleState.lastRunLocalDateByCadence # EmptyMap

\* the step in which trigger p starts an invocation
Begins(p) == pass[p].pc = "idle" /\ pass'[p].pc # "idle"

\* C12: when no credential is available, neither in the options nor in the
\* process environment, runScheduledBackups, runManualBackupNow and
\* getBackupStatus fail with MissingApiTokenError before any remote call and
\* before any write to the persisted Configuration or State; and they fail so
\* in no other case.
C12_MissingTokenFailsFirst ==
  [][ \A p \in Triggers :
        Begins(p) =>
          /\ (pass'[p].optionsApiToken = "" /\ processEnv = "")
               = (pass'[p].pc = "thrown" /\ pass'[p].error = "MissingApiTokenError")
          /\ (pass'[p].optionsApiToken = "" /\ processEnv = "") =>
               /\ hist'.calls[p] = {}
               /\ backupSchedule' = backupSchedule
               /\ automaticBackupsSchedule' = automaticBackupsSchedule
               /\ environments' = environments
               /\ processEnv' = processEnv
    ]_vars

\* with no credential available a manual backup of a deployment whose
\* Configuration needs migration failed with MissingApiTokenError, and a
\* status report is failing so
C12_Witness ==
  /\ processEnv = ""
  /\ backupSchedule = MalformedSchedule
  /\ \E p \in Triggers :
       /\ pass[p].pc = "thrown"
       /\ pass[p].kind = "status"
       /\ pass[p].error = "MissingApiTokenError"
       /\ hist.calls[p] = {}
  /\ runs = 2

\* no listed environment is flagged primary
NoneFlaggedPrimary == \A j \in DOMAIN environments : ~environments[j].primary

PrimaryNotFound == "Could not locate the primary DatoCMS environment."

\* C13: when the listed environments contain none flagged primary, executing
\* a cadence fails with the primary-not-found error without issuing any
\* destroy or fork call; the failure is reported as a failed result for that
\* cadence only: the results of the other cadences are kept, the environments
\* are untouched, and the pass goes on with its next cadence.
C13_NoPrimaryFailsCadenceOnly ==
  [][ \A p \in Triggers :
        (pass[p].pc = "list" /\ pass'[p] # pass[p] /\ NoneFlaggedPrimary) =>
          LET pr      == pass[p]
              cadence == pr.cadences[pr.i]
          IN /\ Len(pass'[p].results) = Len(pr.results) + 1
             /\ SubSeq(pass'[p].results, 1, Len(pr.results)) = pr.results
             /\ pass'[p].results[Len(pr.results) + 1].scope = cadence
             /\ pass'[p].results[Len(pr.results) + 1].status = "failed"
             /\ pass'[p].results[Len(pr.results) + 1].error = PrimaryNotFound
             /\ hist'.calls[p] \ hist.calls[p] \subseteq {"environments.list"}
             /\ hist'.calls[p] \cap {"environments.destroy", "environments.fork"} = {}
             /\ environments' = environments
             /\ pass'[p].i = pr.i + 1
             /\ pass'[p].pc = IF pr.i < Len(pr.cadences) THEN "list" ELSE "persist"
    ]_vars

\* a scheduled pass over a project with an earlier daily backup and no
\* primary environment has reported both its due cadences as failed
C13_Witness ==
  /\ NoneFlaggedPrimary
  /\ OldDailyBackup.id \in EnvIds(environments)
  /\ \E p \in Triggers :
       /\ pass[p].kind = "scheduled"
       /\ pass[p].pc = "persist"
       /\ Len(pass[p].cadences) = 2
       /\ Len(pass[p].results) = 2
       /\ \A j \in 1..2 : /\ pass[p].results[j].status = "failed"
                          /\ pass[p].results[j].error = PrimaryNotFound
       /\ hist.calls[p] \cap {"environments.destroy", "environments.fork"} = {}

\* createBackupNowHandler: the response sent for the manual invocation pr
\* that is about to return (it threw, or it holds its one result)
backupNowResponse(pr) ==
  IF pr.pc = "thrown"
    THEN CASE pr.error = "CadenceNotEnabledError" ->
                [statusCode |-> 409, code |-> "CADENCE_NOT_ENABLED"]
           [] pr.error = "MissingApiTokenError" ->
                [statusCode |-> 500, code |-> "MISSING_API_TOKEN"]
           [] OTHER ->
                [statusCode |-> 500, code |-> "INTERNAL_SERVER_ERROR"]
    ELSE IF pr.results = <<>> \/ pr.results[1].status = "failed"
           THEN [statusCode |-> 500, code |-> "BACKUP_NOW_FAILED"]
           ELSE [statusCode |-> 200, code |-> ""]

\* a manual invocation that holds a context in which its cadence is not enabled
RejectedManual(pr) ==
  /\ pr.kind = "manual"
  /\ pr.pc \in {"migrate", "thrown"}
  /\ pr.error # "MissingApiTokenError"
  /\ pr.scope \notin Range(pr.scheduleConfig.enabledCadences)

\* a manual invocation for a cadence that is not enabled raises
\* CadenceNotEnabledError, answered 409 CADENCE_NOT_ENABLED, and issues no
\* environment call and returns no result
C14_RejectedManualRaises ==
  [][ \A p \in Triggers :
        (pass'[p] # pass[p] /\ pass'[p].kind = "manual"
           /\ pass'[p].error # "MissingApiTokenError"
           /\ pass'[p].scope \notin Range(pass'[p].scheduleConfig.enabledCadences)) =>
          /\ RejectedManual(pass'[p])
          /\ pass[p].pc = "migrate" => pass'[p].pc = "thrown"
          /\ pass'[p].pc = "thrown" =>
               /\ pass'[p].error = "CadenceNotEnabledError"
               /\ backupNowResponse(pass'[p])
                    = [statusCode |-> 409, code |-> "CADENCE_NOT_ENABLED"]
          /\ pass'[p].results = <<>>
          /\ hist'.calls[p] \cap EnvironmentCalls = {}
          /\ environments' = environments
    ]_vars

\* C14: runManualBackupNow for a cadence that is not in the configuration's
\* enabledCadences raises CadenceNotEnabledError (it returns no failed result),
\* issues no environment list, destroy or fork call and writes no State; the
\* backup-now handler answers it 409 CADENCE_NOT_ENABLED, and answers a failed
\* execution 500 BACKUP_NOW_FAILED.
C14_RejectedManualWritesNothing ==
  [][ \A p \in Triggers :
        /\ (pass'[p] # pass[p] /\ RejectedManual(pass'[p])) =>
             /\ pass'[p].pc = "thrown" =>
                  /\ pass'[p].error = "CadenceNotEnabledError"
                  /\ backupNowResponse(pass'[p])
                       = [statusCode |-> 409, code |-> "CADENCE_NOT_ENABLED"]
             /\ pass'[p].results = <<>>
             /\ hist'.calls[p] \cap EnvironmentCalls = {}
             /\ automaticBackupsSchedule' = automaticBackupsSchedule
        /\ (pass[p].kind = "manual" /\ pass[p].pc = "persist"
              /\ pass[p].results[1].status = "failed") =>
             backupNowResponse(pass[p])
               = [statusCode |-> 500, code |-> "BACKUP_NOW_FAILED"]
    ]_vars

\* a manual backup of the monthly cadence, which is not enabled, was rejected
\* after the migration of the Configuration
C14_Witness ==
  \E p \in Triggers :
    /\ pass[p].kind = "manual"
    /\ pass[p].scope = "monthly"
    /\ pass[p].pc = "thrown"
    /\ pass[p].error = "CadenceNotEnabledError"
    /\ pass[p].requiresMigration
    /\ "plugins.update" \in hist.calls[p]

\* the earliest date on which the cadence is scheduled, from the current date
\* on, or from the day after it when the cadence already ran on the current
\* date; NoDate if there is none within the days searched
EarliestScheduledDate(cadence, anchorLocalDate, currentLocalDate, lastRunLocalDate) ==
  LET first == IF lastRunLocalDate = currentLocalDate THEN 1 ELSE 0
      found == {n \in first .. (MaxDaysBefore + 63) :
                  isCadenceScheduledOnDate(cadence, anchorLocalDate,
                                           DaysAfter(currentLocalDate, n))}
  IN IF found = {} THEN NoDate
     ELSE DaysAfter(currentLocalDate, CHOOSE n \in found : \A x \in found : n <= x)

\* C15: for every cadence, anchor date, current date and optional last-run
\* date (the current date before, on or after the anchor), getNextDueLocalDate
\* returns the earliest date d on which the cadence is scheduled such that
\* d >= current date, and d > current date when the last run is the current
\* date; for a monthly anchor on day 31 this is Feb 28 in a common year and
\* Feb 29 in a leap year.
C15_NextDueIsEarliestScheduled ==
  (probe.fn = "getNextDueLocalDate" /\ probe.done) =>
    /\ probe.out = EarliestScheduledDate(probe.cadence, probe.anchorLocalDate,
                                         probe.currentLocalDate, probe.lastRunLocalDate)
    /\ (probe.cadence = "monthly" /\ probe.anchorLocalDate.day = 31
          /\ probe.out.month = 2) =>
         probe.out.day = IF IsLeapYear(probe.out.year) THEN 29 ELSE 28

\* from the anchor date on, getNextDueLocalDate returns the earliest scheduled date
C15_NextDueFromAnchorOn ==
  (probe.fn = "getNextDueLocalDate" /\ probe.done
     /\ compareDateKeys(probe.currentLocalDate, probe.anchorLocalDate) >= 0) =>
    /\ probe.out = EarliestScheduledDate(probe.cadence, probe.anchorLocalDate,
                                         probe.currentLocalDate, probe.lastRunLocalDate)
    /\ (probe.cadence = "monthly" /\ probe.anchorLocalDate.day = 31
          /\ probe.out.month = 2) =>
         probe.out.day = IF IsLeapYear(probe.out.year) THEN 29 ELSE 28

\* the next monthly due date of an anchor on day 31 was asked for on
\* 2024-02-29 after that day's run, and on 2026-02-01
C15_Witness ==
  /\ probe.fn = "getNextDueLocalDate"
  /\ probe.done
  /\ probe.cadence = "monthly"
  /\ probe.anchorLocalDate.day = 31
  /\ \/ /\ probe.currentLocalDate = [year |-> 2024, month |-> 2, day |-> 29]
        /\ probe.lastRunLocalDate = probe.currentLocalDate
        /\ probe.out = [year |-> 2024, month |-> 3, day |-> 31]
     \/ /\ probe.currentLocalDate = [year |-> 2026, month |-> 2, day |-> 1]
        /\ probe.out = [year |-> 2026, month |-> 2, day |-> 28]

\* the calendar day that follows the date: the month ends when the day after
\* is the first of a month
DayAfter(date) ==
  LET sameMonth == [date EXCEPT !.day = @ + 1]
      monthEnds == \/ date.day = 31
                   \/ date.day = 30 /\ date.month \in {4, 6, 9, 11}
                   \/ date.day = 29 /\ date.month = 2
                   \/ /\ date.day = 28 /\ date.month = 2
                      /\ ~(date.year % 4 = 0 /\ (date.year % 100 # 0 \/ date.year % 400 = 0))
  IN IF ~monthEnds THEN sameMonth
     ELSE IF date.month = 12 THEN [year |-> date.year + 1, month |-> 1, day |-> 1]
     ELSE [year |-> date.year, month |-> date.month + 1, day |-> 1]

RECURSIVE DaysUntil(_, _)
\* the days counted one by one from a date to a later or equal date
DaysUntil(from, to) == IF from = to THEN 0 ELSE 1 + DaysUntil(DayAfter(from), to)

\* the signed count of calendar days from the anchor to the date
SignedDayCount(anchor, date) ==
  IF compareDateKeys(date, anchor) >= 0 THEN DaysUntil(anchor, date)
  ELSE 0 - DaysUntil(date, anchor)

\* C16: for the weekly and biweekly cadences, isCadenceScheduledOnDate is true
\* if and only if the signed day count from the anchor to the date is a
\* non-negative multiple of 7 (weekly) or 14 (biweekly), for all valid anchors
\* and dates, including pairs that straddle a month or a year boundary.
C16_IntervalCadencesCountDays ==
  (probe.fn = "isCadenceScheduledOnDate" /\ probe.done
     /\ probe.cadence \in {"weekly", "biweekly"}) =>
    LET count    == SignedDayCount(probe.anchorLocalDate, probe.localDate)
        interval == IF probe.cadence = "weekly" THEN 7 ELSE 14
    IN probe.out = (count >= 0 /\ count % interval = 0)

\* the biweekly cadence anchored on 2025-12-25 is found scheduled on
\* 2026-02-05, six weeks later across the year boundary
C16_Witness ==
  /\ probe.fn = "isCadenceScheduledOnDate"
  /\ probe.done
  /\ probe.cadence = "biweekly"
  /\ probe.anchorLocalDate = [year |-> 2025, month |-> 12, day |-> 25]
  /\ probe.localDate = [year |-> 2026, month |-> 2, day |-> 5]
  /\ probe.out

\* the number of the last day of the month of the date, found by walking
LastDayOfMonth(date) ==
  CHOOSE d \in 28 .. 31 :
    /\ DayAfter([date EXCEPT !.day = d]).day = 1
    /\ \A e \in 28 .. (d - 1) : DayAfter([date EXCEPT !.day = e]).day # 1

\* the dates of the month of `date`, from the anchor on, on which the monthly
\* cadence is scheduled
MonthlyDueDatesOfMonth(anchor, date) ==
  {d \in 1 .. LastDayOfMonth(date) :
     /\ compareDateKeys([date EXCEPT !.day = d], anchor) >= 0
     /\ isCadenceScheduledOnDate("monthly", anchor, [date EXCEPT !.day = d])}

\* C17: for the monthly cadence and a date on or after the anchor,
\* isCadenceScheduledOnDate is true if and only if the day of month of the date
\* equals min(day of month of the anchor, number of days in the date's month);
\* so every calendar month from the anchor's month onward contains exactly one
\* due date.
C17_MonthlyClampsToMonthLength ==
  (probe.fn = "isCadenceScheduledOnDate" /\ probe.done
     /\ probe.cadence = "monthly"
     /\ compareDateKeys(probe.localDate, probe.anchorLocalDate) >= 0) =>
    /\ probe.out = (probe.localDate.day
                      = Min(probe.anchorLocalDate.day, LastDayOfMonth(probe.localDate)))
    /\ Cardinality(MonthlyDueDatesOfMonth(probe.anchorLocalDate, probe.localDate)) = 1

\* the monthly cadence anchored on 2024-01-31 is found scheduled on 2024-02-29
C17_Witness ==
  /\ probe.fn = "isCadenceScheduledOnDate"
  /\ probe.done
  /\ probe.cadence = "monthly"
  /\ probe.anchorLocalDate = [year |-> 2024, month |-> 1, day |-> 31]
  /\ probe.localDate = [year |-> 2024, month |-> 2, day |-> 29]
  /\ probe.out

\* the date d lies strictly before the date e
StrictlyBefore(d, e) ==
  \/ d.year < e.year
  \/ d.year = e.year /\ d.month < e.month
  \/ d.year = e.year /\ d.month = e.month /\ d.day < e.day

\* C18: for every cadence, daily included, and all valid anchors and dates with
\* the date strictly before the anchor, isCadenceScheduledOnDate is false.
C18_NeverScheduledBeforeAnchor ==
  (probe.fn = "isCadenceScheduledOnDate" /\ probe.done
     /\ StrictlyBefore(probe.localDate, probe.anchorLocalDate)) =>
    ~probe.out

\* ... so no scheduled pass finds a cadence due, nor executes one, on a local
\* date before the anchor date of its Configuration
C18_NoPassBeforeAnchor ==
  \A p \in Triggers :
    (pass[p].kind = "scheduled" /\ pass[p].pc \notin {"idle", "thrown"}
       /\ StrictlyBefore(toLocalDateKey(pass[p].now, pass[p].scheduleConfig.timezone),
                         pass[p].scheduleConfig.anchorLocalDate)) =>
      /\ pass[p].cadences = <<>>
      /\ pass[p].results = <<>>
      /\ hist.calls[p] \cap EnvironmentCalls = {}

\* the daily cadence anchored on 2025-12-31 was asked for on the day before
\* the anchor, and found not scheduled
C18_Witness ==
  /\ probe.fn = "isCadenceScheduledOnDate"
  /\ probe.done
  /\ probe.cadence = "daily"
  /\ probe.anchorLocalDate = [year |-> 2025, month |-> 12, day |-> 31]
  /\ probe.localDate = [year |-> 2025, month |-> 12, day |-> 30]
  /\ ~probe.out

\* a scheduled pass of the day before the anchor date is being skipped
C18_WitnessPass ==
  \E p \in Triggers :
    /\ pass[p].kind = "scheduled"
    /\ pass[p].pc = "skip"
    /\ pass[p].scheduleConfig.anchorLocalDate = FutureSchedule.anchorLocalDate
    /\ toLocalDateKey(pass[p].now, pass[p].scheduleConfig.timezone)
         = [year |-> 2026, month |-> 2, day |-> 26]

\* the place of a cadence in the canonical order daily, weekly, biweekly, monthly
CanonicalRank(cadence) ==
  CASE cadence = "daily" -> 1
    [] cadence = "weekly" -> 2
    [] cadence = "biweekly" -> 3
    [] cadence = "monthly" -> 4
    [] OTHER -> 0

\* the date is a date of the calendar: counting its days and going back to
\* year, month and day gives the same date
IsCalendarDate(date) ==
  /\ date.month \in 1 .. 12
  /\ date.day \in 1 .. 31
  /\ CivilFromDays(DaysFromCivil(date.year, date.month, date.day)) = date

\* C19: for every raw input (absent, non-object, or an object with any mix of
\* valid and invalid fields), the normalized configuration has a non-empty
\* enabledCadences that is a duplicate-free subset of daily, weekly, biweekly,
\* monthly in that canonical order, an anchorLocalDate that is a valid calendar
\* date, and a timezone that passes the validity probe.
C19_NormalizedConfigIsWellFormed ==
  (probe.fn = "normalizeBackupScheduleConfig" /\ probe.done) =>
    LET config == probe.out.config
        enabledCadences == config.enabledCadences
    IN /\ Len(enabledCadences) >= 1
       /\ \A j \in DOMAIN enabledCadences : CanonicalRank(enabledCadences[j]) >= 1
       /\ \A j \in DOMAIN enabledCadences : \A k \in DOMAIN enabledCadences :
            j < k => CanonicalRank(enabledCadences[j]) < CanonicalRank(enabledCadences[k])
       /\ IsCalendarDate(config.anchorLocalDate)
       /\ config.timezone \in ValidTimezones
       /\ config.version = BACKUP_SCHEDULE_VERSION

\* a stored object listing weekly, daily, weekly with an unknown timezone and
\* the anchor 2026-02-30 was normalized
C19_Witness ==
  /\ probe.fn = "normalizeBackupScheduleConfig"
  /\ probe.done
  /\ isObject(probe.value)
  /\ Field(probe.value, "enabledCadences") = << <<"weekly", "daily", "weekly">> >>
  /\ Field(probe.value, "timezone") = <<InvalidTimezone>>
  /\ Field(probe.value, "anchorLocalDate") = <<[year |-> 2026, month |-> 2, day |-> 30]>>
  /\ probe.out.config.enabledCadences = <<"daily", "weekly">>

\* the stored value is an object malformed in its cadences (an empty list),
\* its timezone (invalid) and its anchor (invalid or missing)
Malformed(value) ==
  /\ isObject(value)
  /\ Field(value, "enabledCadences") = << <<>> >>
  /\ Field(value, "timezone") = <<InvalidTimezone>>
  /\ Field(value, "anchorLocalDate") \in {<<>>, <<[year |-> 2026, month |-> 2, day |-> 30]>>}

\* C20: a persisted configuration that is malformed in enabledCadences (empty
\* list), timezone (invalid) and anchor (invalid or missing) normalizes to
\* enabledCadences = [daily, weekly], timezone = the caller's fallback if it is
\* valid, else UTC, anchorLocalDate = today in the resolved timezone, with
\* requiresMigration = true.
C20_MalformedConfigGetsDefaults ==
  (probe.fn = "normalizeBackupScheduleConfig" /\ probe.done /\ Malformed(probe.value)) =>
    LET resolved == IF probe.timezoneFallback \in ValidTimezones
                      THEN probe.timezoneFallback ELSE 0
    IN /\ probe.out.config.enabledCadences = <<"daily", "weekly">>
       /\ probe.out.config.timezone = resolved
       /\ probe.out.config.anchorLocalDate
            = CivilFromDays(DaysFromCivil(EpochDate.year, EpochDate.month, EpochDate.day)
                              + (probe.now + resolved) \div TicksPerDay)
       /\ probe.out.requiresMigration

\* a malformed stored object carrying the current version tag was normalized
\* with a valid fallback timezone that is a day behind UTC at that instant
C20_Witness ==
  /\ probe.fn = "normalizeBackupScheduleConfig"
  /\ probe.done
  /\ Malformed(probe.value)
  /\ Field(probe.value, "version") = <<BACKUP_SCHEDULE_VERSION>>
  /\ Field(probe.value, "updatedAt") = <<0>>
  /\ probe.timezoneFallback = 0 - 1
  /\ probe.now = 0
  /\ probe.out.config.anchorLocalDate = [year |-> 2026, month |-> 2, day |-> 26]
  /\ probe.out.requiresMigration

\* the call of normalizeBackupScheduleConfig has returned
Normalized == probe.fn = "normalizeBackupScheduleConfig" /\ probe.done

\* the stored enabledCadences is absent or not a list, an empty list, or a
\* list with no valid cadence identifier
NoValidCadence(value) ==
  /\ isObject(value)
  /\ \/ Field(value, "enabledCadences") = <<>>
     \/ \A j \in DOMAIN Field(value, "enabledCadences")[1] :
          CanonicalRank(Field(value, "enabledCadences")[1][j]) = 0

\* C21: an enabledCadences value that is absent, not a list, an empty list, or
\* a list with no valid cadence identifier forces requiresMigration = true by
\* itself (also when version, timezone, anchorLocalDate and updatedAt are all
\* valid) and yields enabledCadences = [daily, weekly].
C21_InvalidCadencesForceMigration ==
  (Normalized /\ NoValidCadence(probe.value)) =>
    /\ probe.out.requiresMigration
    /\ probe.out.config.enabledCadences = <<"daily", "weekly">>

\* an enabledCadences value with no valid identifier yields [daily, weekly],
\* and forces requiresMigration when it is absent or not a list
C21_InvalidCadencesGetDefaults ==
  (Normalized /\ NoValidCadence(probe.value)) =>
    /\ probe.out.config.enabledCadences = <<"daily", "weekly">>
    /\ Field(probe.value, "enabledCadences") = <<>> => probe.out.requiresMigration

\* a stored object valid in every field but its enabledCadences, which lists
\* only an unknown identifier, was normalized
C21_Witness ==
  /\ Normalized
  /\ Field(probe.value, "version") = <<BACKUP_SCHEDULE_VERSION>>
  /\ Field(probe.value, "enabledCadences") = << <<InvalidCadence>> >>
  /\ Field(probe.value, "timezone") = <<0 - 1>>
  /\ Field(probe.value, "anchorLocalDate") = <<[year |-> 2026, month |-> 2, day |-> 19]>>
  /\ Field(probe.value, "updatedAt") = <<0>>
  /\ probe.out.config.enabledCadences = <<"daily", "weekly">>

\* the stored timezone is absent or empty, or fails the validity probe
NoValidTimezone(value) ==
  /\ isObject(value)
  /\ \/ Field(value, "timezone") = <<>>
     \/ Field(value, "timezone")[1] \notin {0 - 1, 0}

\* the caller's fallback timezone if it is valid, else UTC
FallbackOrUtc(timezoneFallback) ==
  IF timezoneFallback \in {0 - 1, 0} THEN timezoneFallback ELSE 0

\* C22: a timezone value that is not a valid zone (absent, empty, or a
\* non-empty string that fails the validity probe) forces requiresMigration =
\* true by itself (also when every other field is valid), and the normalized
\* timezone is the caller's fallback if that is valid, else UTC.
C22_InvalidTimezoneForcesMigration ==
  (Normalized /\ NoValidTimezone(probe.value)) =>
    /\ probe.out.requiresMigration
    /\ probe.out.config.timezone = FallbackOrUtc(probe.timezoneFallback)

\* a timezone value that is not a valid zone is replaced by the fallback or
\* UTC, and forces requiresMigration when it is absent or empty
C22_InvalidTimezoneGetsFallback ==
  (Normalized /\ NoValidTimezone(probe.value)) =>
    /\ probe.out.config.timezone = FallbackOrUtc(probe.timezoneFallback)
    /\ Field(probe.value, "timezone") = <<>> => probe.out.requiresMigration

\* a stored object valid in every field but its timezone, which fails the
\* validity probe, was normalized with an invalid fallback
C22_Witness ==
  /\ Normalized
  /\ Field(probe.value, "version") = <<BACKUP_SCHEDULE_VERSION>>
  /\ Field(probe.value, "enabledCadences") = << <<"monthly", "biweekly", "weekly", "daily">> >>
  /\ Field(probe.value, "timezone") = <<InvalidTimezone>>
  /\ Field(probe.value, "anchorLocalDate") = <<[year |-> 2026, month |-> 2, day |-> 19]>>
  /\ Field(probe.value, "updatedAt") = <<0>>
  /\ probe.timezoneFallback = InvalidTimezone
  /\ probe.out.config.timezone = 0

\* C23: the distributed slot (slotHourUtc, slotWeekdayUtc) returned by
\* getDistributedScheduleWindow depends only on the scope and the identity
\* token: for any two instants the slot fields are equal; only currentHourUtc
\* and currentWeekdayUtc vary with the instant. The slot hour lies in 0..23,
\* the slot weekday is absent for daily and lies in 0..6 for weekly.
C23_SlotIndependentOfInstant ==
  (probe.fn = "getDistributedScheduleWindow" /\ probe.done) =>
    LET first == probe.out[1]
        second == probe.out[2]
    IN /\ first.slotHourUtc = second.slotHourUtc
       /\ first.slotWeekdayUtc = second.slotWeekdayUtc
       /\ first.slotHourUtc \in 0 .. 23
       /\ first.slotWeekdayUtc \in (IF probe.scope = "daily" THEN {NoWeekday} ELSE 0 .. 6)
       /\ first.currentHourUtc = probe.first % 24
       /\ second.currentHourUtc = probe.second % 24
       /\ first.currentWeekdayUtc = (4 + (probe.first - FirstSlotHour) \div 24) % 7
       /\ second.currentWeekdayUtc = (4 + (probe.second - FirstSlotHour) \div 24) % 7

\* the weekly window of test-token was computed at 2026-02-26T00:00Z and an
\* hour later: Saturday 13h both times, the current hour 0 and then 1
C23_Witness ==
  /\ probe.fn = "getDistributedScheduleWindow"
  /\ probe.done
  /\ probe.scope = "weekly"
  /\ probe.apiToken = "test-token"
  /\ probe.first = FirstSlotHour
  /\ probe.second = FirstSlotHour + 1
  /\ probe.out[1].slotHourUtc = 13
  /\ probe.out[1].slotWeekdayUtc = 6
  /\ probe.out[1].currentHourUtc = 0
  /\ probe.out[2].currentHourUtc = 1
  /\ probe.out[1].currentWeekdayUtc = 4

\* the instant of the run lies inside the slot assigned to its scope: in
\* hourly mode the hour matches, and for weekly the weekday too; in daily mode
\* daily always, and weekly when the weekday matches
InsideAssignedSlot ==
  LET hour       == probe.now % 24
      weekday    == (4 + (probe.now - FirstSlotHour) \div 24) % 7
      hourOk     == hour = probe.schedule.slotHourUtc
      weekdayOk  == weekday = probe.schedule.slotWeekdayUtc
  IN CASE probe.cadence = "hourly" /\ probe.scope = "daily"  -> hourOk
       [] probe.cadence = "hourly" /\ probe.scope = "weekly" -> hourOk /\ weekdayOk
       [] probe.cadence = "daily"  /\ probe.scope = "daily"  -> TRUE
       [] probe.cadence = "daily"  /\ probe.scope = "weekly" -> weekdayOk

C24_WitnessSkipped ==
  /\ probe.fn = "runScheduledScopedBackup"
  /\ probe.pc = "returned"
  /\ probe.scope = "weekly"
  /\ probe.cadence = "hourly"
  /\ probe.apiToken = "token"
  /\ probe.now = FirstSlotHour + 3
  /\ probe.status = "skipped"

\* a step of the invocation of trigger p, which is a getBackupStatus
StatusStep(p) ==
  /\ pass'[p] # pass[p]
  /\ "status" \in {pass[p].kind, pass'[p].kind}

\* C25: getBackupStatus is read-only towards the remote environments: for
\* every configuration and state it issues no destroy and no fork call, and
\* the remote environments after the call are those before it.
C25_StatusIsReadOnly ==
  [][\A p \in Triggers :
       StatusStep(p) =>
         /\ environments' = environments
         /\ hist'.calls[p] \cap {"environments.destroy", "environments.fork"} = {}
         /\ pass'[p].pc \in {"idle", "migrate", "status", "thrown"}]_vars

\* a getBackupStatus is about to return while an earlier backup exists
C25_Witness ==
  \E p \in Triggers :
    /\ pass[p].kind = "status"
    /\ pass[p].pc = "status"
    /\ OldDailyBackup \in Range(environments)

\* the creation instants of the non-primary environments of the listing
\* whose id starts with the prefix of the cadence
BackupInstants(envs, cadence) ==
  {e.created_at : e \in {x \in Range(envs) :
                           /\ ~x.primary
                           /\ x.id.prefix = getEnvironmentPrefix(cadence)}}

\* the greatest of them, NoInstant when there is none
GreatestCreatedAt(envs, cadence) ==
  IF BackupInstants(envs, cadence) = {} THEN NoInstant
  ELSE CHOOSE t \in BackupInstants(envs, cadence) :
         \A u \in BackupInstants(envs, cadence) : u <= t

\* C26: the lastBackupAt reported by status for a cadence is the greatest
\* created_at among the non-primary environments whose id starts with the
\* prefix of the cadence (null when there is none), and it does not depend on
\* the persisted State: two status calls with the same environment list and
\* different (or lost) State report the same lastBackupAt for every cadence.
C26_LastBackupAtFromEnvironments ==
  (probe.fn = "getBackupStatus" /\ probe.done) =>
    \A cadence \in Cadences :
      /\ probe.out[1][cadence].lastBackupAt
           = GreatestCreatedAt(probe.environments, cadence)
      /\ probe.out[2][cadence].lastBackupAt = probe.out[1][cadence].lastBackupAt

\* two status calls, one with the State lost, whose next due instants differ,
\* over a listing whose latest daily backup is neither the first listed nor
\* the one with the latest date in its id
C26_Witness ==
  /\ probe.fn = "getBackupStatus"
  /\ probe.done
  /\ probe.scheduleState = RanTodayState
  /\ probe.otherState = EmptyScheduleState
  /\ probe.out[1]["daily"].nextBackupAt # probe.out[2]["daily"].nextBackupAt
  /\ Len(probe.environments) = 3
  /\ probe.environments[2].created_at = 3
  /\ probe.environments[3].created_at = 5
  /\ probe.out[1]["daily"].lastBackupAt = 5
  /\ probe.out[1]["monthly"].lastBackupAt = NoInstant

\* the cadences of the result of a run that failed
FailedCadences(result) ==
  {result.results[j].scope : j \in {k \in DOMAIN result.results :
                                      result.results[k].status = "failed"}}

\* C27: no platform adapter reports success for a run result that contains a
\* failed cadence: the Vercel handler, the Netlify job helper and the
\* Cloudflare route all answer 500 with error code
\* SCHEDULED_BACKUPS_PARTIAL_FAILURE together with the full per-cadence
\* result, the Cloudflare cron hook rejects its waitUntil promise, and a
\* result without failures is answered 200 ok.
C27_PartialFailureIsNeverSuccess ==
  (probe.fn = "scheduledBackupsAdapter" /\ probe.done /\ ~probe.outcome.thrown) =>
    IF FailedCadences(probe.outcome.result) # {}
      THEN IF probe.adapter = "cloudflare-cron"
             THEN probe.out[1] = "rejected"
             ELSE /\ probe.out[1].statusCode = 500
                  /\ ~probe.out[1].ok
                  /\ probe.out[1].code = "SCHEDULED_BACKUPS_PARTIAL_FAILURE"
                  /\ probe.out[1].result = <<probe.outcome.result>>
      ELSE IF probe.adapter = "cloudflare-cron"
             THEN probe.out[1] = "resolved"
             ELSE /\ probe.out[1].statusCode = 200
                  /\ probe.out[1].ok
                  /\ probe.out[1].result = <<probe.outcome.result>>

\* the Vercel handler answered 500 for a run whose daily cadence failed and
\* whose weekly and monthly cadences executed
C27_Witness ==
  /\ probe.fn = "scheduledBackupsAdapter"
  /\ probe.done
  /\ probe.adapter = "vercel"
  /\ ~probe.outcome.thrown
  /\ Len(probe.outcome.result.results) = 3
  /\ probe.outcome.result.results[1] = [scope |-> "daily", status |-> "failed"]
  /\ probe.outcome.result.results[3] = [scope |-> "monthly", status |-> "executed"]
  /\ probe.out[1].statusCode = 500

\* the secret configured for the request: the binding of the platform if
\* set, else the environment variable; "" when neither is
ConfiguredSecret ==
  IF probe.bindingSecret \notin {"", "   "} THEN probe.bindingSecret
  ELSE IF probe.envSecret \notin {"", "   "} THEN probe.envSecret
  ELSE ""

\* the answered request carried the configured secret
CarriesConfiguredSecret == probe.header = <<ConfiguredSecret>>

\* C28: for every HTTP endpoint (plugin-health, backup-status, backup-now,
\* scheduled-backups) the job or loader is invoked only after the method
\* check and then the shared-secret check have both passed: a request whose
\* X-Datocms-Backups-Auth header is missing or differs from the configured
\* secret is answered 401 UNAUTHORIZED and triggers no job, and a request with
\* a non-allowed method is answered 405 METHOD_NOT_ALLOWED before
\* authentication is evaluated.
C28_MethodThenSecretBeforeJob ==
  (probe.fn = "handleRequest" /\ probe.done) =>
    /\ probe.out[1].jobInvoked => (probe.method = "POST" /\ CarriesConfiguredSecret)
    /\ (probe.method = "POST" /\ ConfiguredSecret # "" /\ ~CarriesConfiguredSecret) =>
         /\ probe.out[1].statusCode = 401
         /\ probe.out[1].code = "UNAUTHORIZED"
         /\ ~probe.out[1].jobInvoked
    /\ probe.method \notin {"POST", "OPTIONS"} =>
         /\ probe.out[1].statusCode = 405
         /\ probe.out[1].code = "METHOD_NOT_ALLOWED"
         /\ ~probe.out[1].authEvaluated
         /\ ~probe.out[1].jobInvoked

\* what holds on every route: no job without the configured secret, and a
\* POST without it is answered 401
C28_NoJobWithoutSecret ==
  (probe.fn = "handleRequest" /\ probe.done) =>
    /\ probe.out[1].jobInvoked =>
         (probe.out[1].authEvaluated /\ ConfiguredSecret # "" /\ CarriesConfiguredSecret)
    /\ (probe.method = "POST" /\ ConfiguredSecret # "" /\ ~CarriesConfiguredSecret) =>
         /\ probe.out[1].statusCode = 401
         /\ probe.out[1].code = "UNAUTHORIZED"
         /\ ~probe.out[1].jobInvoked

\* what holds on the routes with a method check: every route but the
\* scheduled-backups route of the Cloudflare worker
C28_MethodCheckedFirstOnHandlers ==
  (/\ probe.fn = "handleRequest"
   /\ probe.done
   /\ ~(probe.platform = "cloudflare" /\ probe.endpoint = "scheduled-backups")) =>
    /\ probe.out[1].jobInvoked => probe.method = "POST"
    /\ probe.method \notin {"POST", "OPTIONS"} =>
         /\ probe.out[1].statusCode = 405
         /\ probe.out[1].code = "METHOD_NOT_ALLOWED"
         /\ ~probe.out[1].authEvaluated

\* a POST with the configured secret reached the job of backup-now
C28_Witness ==
  /\ probe.fn = "handleRequest"
  /\ probe.done
  /\ probe.endpoint = "backup-now"
  /\ probe.method = "POST"
  /\ probe.header = <<"test-shared-secret">>
  /\ probe.out[1].jobInvoked

\* C29: if DATOCMS_BACKUPS_SHARED_SECRET is omitted or empty, authentication
\* falls back to the default secret superSecretToken: a request carrying
\* X-Datocms-Backups-Auth: superSecretToken is accepted and any other value is
\* rejected with 401.
C29_DefaultSecretFallback ==
  (/\ probe.fn = "handleRequest"
   /\ probe.done
   /\ ConfiguredSecret = ""
   /\ probe.method = "POST"
   /\ probe.validPayload) =>
    IF probe.header = <<"superSecretToken">>
      THEN probe.out[1].statusCode = 200 /\ probe.out[1].jobInvoked
      ELSE probe.out[1].statusCode = 401 /\ ~probe.out[1].jobInvoked

\* what the code does without a configured secret: every POST, whatever its
\* header, is answered 500 MISSING_SHARED_SECRET_CONFIG and reaches no job
C29_UnconfiguredSecretRejectsAll ==
  (/\ probe.fn = "handleRequest"
   /\ probe.done
   /\ ConfiguredSecret = ""
   /\ probe.method = "POST") =>
    /\ probe.out[1].statusCode = 500
    /\ probe.out[1].code = "MISSING_SHARED_SECRET_CONFIG"
    /\ ~probe.out[1].jobInvoked

\* a POST carrying superSecretToken was answered while no secret is configured
C29_Witness ==
  /\ probe.fn = "handleRequest"
  /\ probe.done
  /\ probe.platform = "vercel"
  /\ probe.endpoint = "plugin-health"
  /\ probe.method = "POST"
  /\ probe.envSecret = ""
  /\ probe.header = <<"superSecretToken">>

\* the pass of trigger p writes the State
WritesState(p) ==
  /\ pass[p].pc = "persist"
  /\ pass'[p].pc = "idle"
  /\ faults' = faults
  /\ pass[p].pluginId # ""
  /\ Len(pass[p].cadences) > 0

\* the local date the State holds for the last run of a cadence
LastRunIn(scheduleState, c) == MapGet(scheduleState.lastRunLocalDateByCadence, c, NoDate)

\* before the pass of trigger p writes, the State holds for cadence c a run of
\* the current local date that another pass recorded after p read its
\* snapshot, and p did not execute c itself
UpdateOfOtherPass(p, c) ==
  /\ c \notin executedScopes(pass[p].results)
  /\ LastRunIn(automaticBackupsSchedule, c)
       = toLocalDateKey(clock, pass[p].scheduleConfig.timezone)
  /\ LastRunIn(pass[p].scheduleState, c) # LastRunIn(automaticBackupsSchedule, c)

\* C30: a State write replaces the whole record with the snapshot read at the
\* start of the pass plus that pass's own updates: when two passes overlap,
\* the pass that writes last erases the per-cadence updates of the other (its
\* new lastRunLocalDate), so the cadence whose update was erased is due again
\* on the next trigger of the same local date.
C30_LastWriterErasesOtherUpdates ==
  [][\A p \in Triggers :
       WritesState(p) =>
         \A c \in Cadences :
           /\ LastRunIn(automaticBackupsSchedule', c)
                = IF c \in executedScopes(pass[p].results) THEN RunLocalDate(pass[p])
                  ELSE LastRunIn(pass[p].scheduleState, c)
           /\ (/\ UpdateOfOtherPass(p, c)
               /\ c \in Range(pass[p].scheduleConfig.enabledCadences)
               /\ isCadenceScheduledOnDate(
                    c, pass[p].scheduleConfig.anchorLocalDate,
                    toLocalDateKey(clock, pass[p].scheduleConfig.timezone))) =>
                /\ LastRunIn(automaticBackupsSchedule', c)
                     # LastRunIn(automaticBackupsSchedule, c)
                /\ c \in Range(getDueCadences(
                                 [scheduleConfig |-> pass[p].scheduleConfig,
                                  scheduleState  |->
                                    toScheduleState(automaticBackupsSchedule')],
                                 clock))]_vars

\* a pass that did not execute a cadence is about to write over the run of
\* that cadence which an overlapping pass recorded for the current local date
C30_Witness ==
  \E p \in Triggers : \E c \in Cadences :
    /\ pass[p].pc = "persist"
    /\ pass[p].pluginId # ""
    /\ c \in Range(pass[p].cadences)
    /\ hist.overlaps[p] > 0
    /\ UpdateOfOtherPass(p, c)

\* the update is gone: the cadence was executed on the current local date, no
\* pass is in flight, and the State holds no run of it for that date
C30_WitnessErased ==
  \E c \in Cadences :
    /\ \A p \in Triggers : ~InFlight(p)
    /\ <<c, toLocalDateKey(clock, DEFAULT_TIMEZONE - 1)>> \in hist.executed
    /\ LastRunIn(automaticBackupsSchedule, c) # toLocalDateKey(clock, DEFAULT_TIMEZONE - 1)
    /\ hist.disturbed

\* the invocation of trigger p is a manual backup that went past its context
ManualUnderWay(pr) ==
  /\ pr.kind = "manual"
  /\ pr.pc \notin {"idle", "migrate", "thrown"}

\* the pass of trigger p is a manual backup that executed its cadence and
\* writes the State
ManualWritesState(p) ==
  /\ WritesState(p)
  /\ pass[p].kind = "manual"
  /\ pass[p].scope \in executedScopes(pass[p].results)

\* C31: runManualBackupNow executes the rotation of an enabled cadence
\* whether or not the cadence is due and whether or not it already ran on the
\* current local date (the due guard is not consulted), and on success it
\* records lastRunLocalDate = current local date for that cadence, so a later
\* scheduled pass on the same local date skips that cadence.
C31_ManualIgnoresDueGuardAndRecords ==
  [][\A p \in Triggers :
       /\ (pass'[p] # pass[p] /\ ManualUnderWay(pass'[p])) =>
            /\ pass'[p].scope \in Range(pass'[p].scheduleConfig.enabledCadences)
            /\ pass'[p].cadences = <<pass'[p].scope>>
            /\ pass'[p].pc \in {"list", "destroy", "fork", "persist"}
       /\ (pass'[p] # pass[p] /\ pass'[p].kind = "manual" /\ pass'[p].pc = "thrown"
             /\ pass'[p].error # "MissingApiTokenError") =>
            pass'[p].scope \notin Range(pass'[p].scheduleConfig.enabledCadences)
       /\ ManualWritesState(p) =>
            /\ LastRunIn(automaticBackupsSchedule', pass[p].scope) = RunLocalDate(pass[p])
            /\ RunLocalDate(pass[p])
                 = toLocalDateKey(pass[p].now, pass[p].scheduleConfig.timezone)
            /\ pass[p].scope \notin
                 Range(getDueCadences(
                         [scheduleConfig |-> pass[p].scheduleConfig,
                          scheduleState  |-> toScheduleState(automaticBackupsSchedule')],
                         pass[p].now))]_vars

\* a manual backup executed a cadence that its own context held as already
\* run on the current local date, and is about to write the State
C31_Witness ==
  \E p \in Triggers :
    /\ pass[p].kind = "manual"
    /\ pass[p].pc = "persist"
    /\ pass[p].scope \in executedScopes(pass[p].results)
    /\ pass[p].scope \notin DueNow(pass[p])
    /\ LastRunIn(pass[p].scheduleState, pass[p].scope) = RunLocalDate(pass[p])

\* a manual backup executed a cadence that is not scheduled on the current
\* local date
C31_WitnessNotScheduled ==
  \E p \in Triggers :
    /\ pass[p].kind = "manual"
    /\ pass[p].pc = "persist"
    /\ pass[p].scope \in executedScopes(pass[p].results)
    /\ ~isCadenceScheduledOnDate(pass[p].scope, pass[p].scheduleConfig.anchorLocalDate,
                                 RunLocalDate(pass[p]))

\* trigger p starts a scheduled pass that obtains a context
StartsScheduledPass(p) ==
  /\ pass[p].pc = "idle"
  /\ pass'[p].kind = "scheduled"
  /\ pass'[p].pc # "thrown"

\* C32: when no plugin record is found for the deployment, a pass persists
\* neither Configuration nor State; each scheduled pass then starts from the
\* default configuration with anchor = today and an empty State, so every
\* invocation, also a repeated one on the same date, executes both the daily
\* and the weekly cadence.
C32_NoPluginRecordRunsEveryTime ==
  [][pluginId = "" =>
       /\ backupSchedule' = backupSchedule
       /\ automaticBackupsSchedule' = automaticBackupsSchedule
       /\ \A p \in Triggers :
            StartsScheduledPass(p) =>
              /\ pass'[p].pluginId = ""
              /\ ~pass'[p].requiresMigration
              /\ pass'[p].scheduleConfig.enabledCadences = <<"daily", "weekly">>
              /\ pass'[p].scheduleConfig.anchorLocalDate
                   = toLocalDateKey(clock, pass'[p].scheduleConfig.timezone)
              /\ pass'[p].scheduleState = EmptyScheduleState
              /\ pass'[p].cadences = <<"daily", "weekly">>
              /\ pass'[p].pc = "list"]_vars

\* the second scheduled pass of a local date on a deployment without plugin
\* record is about to execute the daily cadence, which an earlier pass
\* executed on that date
C32_Witness ==
  \E p \in Triggers :
    /\ pluginId = ""
    /\ pass[p].kind = "scheduled"
    /\ pass[p].pc = "list"
    /\ pass[p].cadences = <<"daily", "weekly">>
    /\ pass[p].i = 1
    /\ ~InFlight(Other(p))
    /\ <<"daily", RunLocalDate(pass[p])>> \in hist.executed

\* the fork of the cadence in progress of trigger p fails, by "already
\* exists" or by a transport fault
ForkFails(p) ==
  /\ pass[p].pc = "fork"
  /\ pass'[p].pc # "idle"
  /\ Len(pass'[p].results) = Len(pass[p].results) + 1
  /\ pass'[p].results[Len(pass'[p].results)].status = "failed"

\* the pass of trigger p, which no other pass overlapped, is over but for its
\* State write; the fork of its last cadence c failed after every prior
\* backup listed for c was destroyed
FailedAfterDestroy(p, c) ==
  /\ pass[p].pc = "persist"
  /\ pass[p].pluginId # ""
  /\ hist.overlaps[p] = 0
  /\ ~InFlight(Other(p))
  /\ c = pass[p].cadences[Len(pass[p].cadences)]
  /\ Len(pass[p].results) = Len(pass[p].cadences)
  /\ pass[p].results[Len(pass[p].results)].status = "failed"
  /\ hist.listed[p] # <<>>
  /\ hist.destroyed[p] = Range(hist.listed[p])

\* the environment id the State holds for a cadence
ManagedIn(scheduleState, c) ==
  MapGet(scheduleState.lastManagedEnvironmentIdByCadence, c, NoEnvId)

OnDueDate(cadence, anchor, date) ==
  /\ ~StrictlyBefore(date, anchor)
  /\ CASE cadence = "weekly"   -> DaysUntil(anchor, date) % 7 = 0
       [] cadence = "biweekly" -> DaysUntil(anchor, date) % 14 = 0
       [] cadence = "monthly"  ->
            date.day = (IF anchor.day < LastDayOfMonth(date)
                          THEN anchor.day ELSE LastDayOfMonth(date))
       [] OTHER -> TRUE

\* the cadences whose due date 2026-02-26 went by without a successful
\* execution
Missed ==
  {c \in {"weekly", "biweekly", "monthly"} :
     /\ OnDueDate(c, backupSchedule.anchorLocalDate, [year |-> 2026, month |-> 2, day |-> 26])
     /\ <<c, [year |-> 2026, month |-> 2, day |-> 26]>> \notin hist.executed}

\* C34: there is no catch-up for a missed due date: if no pass executes a
\* weekly, biweekly or monthly cadence successfully on its due date (no
\* trigger fired that day, or the execution failed), passes on the following
\* non-due dates do not execute it, and the cadence runs next only on its next
\* scheduled date.
C34_NoCatchUpAfterMissedDueDate ==
  \A p \in Triggers :
    InFlight(p) =>
      LET d        == RunLocalDate(pass[p])
          anchor   == pass[p].scheduleConfig.anchorLocalDate
          untimely == {c \in Cadences : ~OnDueDate(c, anchor, d)}
      IN /\ untimely \cap Range(pass[p].cadences) = {}
         /\ untimely \cap Executing(p) = {}
         /\ untimely \cap Range(hist.attempts[p]) = {}
         /\ \A j \in DOMAIN pass[p].results :
              pass[p].results[j].scope \notin untimely
         /\ (Missed # {} /\ d = [year |-> 2026, month |-> 2, day |-> 27]) =>
              /\ pass[p].cadences = <<>>
              /\ pass[p].pc \in {"skip", "thrown"}

\* the execution of the due date failed, and the pass of the day after finds
\* nothing due
C34_Witness ==
  \E p \in Triggers :
    /\ pass[p].pc = "skip"
    /\ RunLocalDate(pass[p]) = [year |-> 2026, month |-> 2, day |-> 27]
    /\ Missed # {}
    /\ faults > 0

\* no trigger fired on the due date, and the first pass, of the day after,
\* finds nothing due
C34_WitnessNoTrigger ==
  \E p \in Triggers :
    /\ pass[p].pc = "skip"
    /\ RunLocalDate(pass[p]) = [year |-> 2026, month |-> 2, day |-> 27]
    /\ Missed # {}
    /\ runs = 1

\* ... and on any date the cadence is due exactly when the date is one of its
\* due dates and differs from the date of the last run, however long ago that
\* run was: the next execution is on the next scheduled date
C34_DueOnlyOnScheduledDates ==
  (probe.fn = "isCadenceDueNow" /\ probe.done
     /\ probe.cadence \in {"weekly", "biweekly", "monthly"}
     /\ parseLocalDateKey(probe.anchorLocalDate)) =>
    (probe.out <=>
       /\ OnDueDate(probe.cadence, probe.anchorLocalDate, probe.currentLocalDate)
       /\ probe.lastRunLocalDate # probe.currentLocalDate)

\* the environments a step removes
Removed == {e \in Range(environments) : e \notin Range(environments')}

\* trigger p makes a step of the execution of cadence c
Executes(p, c) ==
  /\ Executing(p) = {c}
  /\ pass'[p] # pass[p]

\* C35: executing cadence C destroys only non-primary environments whose id
\* starts with backup-plugin-<C>-: the primary environment (also when its id
\* carries that prefix), the backup environments of every other cadence
\* (weekly versus biweekly included) and all unrelated environments are left
\* untouched.
C35_DestroysOnlyOwnBackups ==
  [][/\ \A e \in Removed :
          \E p \in Triggers :
            /\ pass[p].pc = "destroy"
            /\ pass'[p] # pass[p]
            /\ ~e.primary
            /\ e.id.prefix = "backup-plugin-" \o pass[p].cadences[pass[p].i]
     /\ \A p \in Triggers : \A c \in Cadences :
          Executes(p, c) =>
            \A e \in Range(environments) :
              (e.primary \/ e.id.prefix # "backup-plugin-" \o c) =>
                e \in Range(environments')]_vars

\* the weekly cadence was executed and the daily one before it: the backups
\* of a week before are gone, the primary environment with the daily prefix,
\* the biweekly and monthly backups and the unrelated environment are there
C35_Witness ==
  \E p \in Triggers :
    /\ pass[p].pc = "persist"
    /\ executedScopes(pass[p].results) = {"daily", "weekly"}
    /\ EarlierBackup("daily") \notin Range(environments)
    /\ EarlierBackup("weekly") \notin Range(environments)
    /\ {PrefixedPrimary, EarlierBackup("biweekly"), EarlierBackup("monthly"),
        UnrelatedEnvironment} \subseteq Range(environments)

\* trigger p writes the Configuration its normalization migrated
WritesMigration(p) ==
  /\ pass[p].pc = "migrate"
  /\ pass[p].requiresMigration
  /\ pass'[p].pc # "migrate"

\* C36: a pass (scheduled, manual or status) writes the persisted
\* Configuration only when normalization reports requiresMigration; when it
\* does not, the persisted Configuration after the pass equals the one before
\* it, and the State write at the end of a pass never changes the
\* Configuration that was read or migrated at its start.
C36_ConfigurationWrittenOnlyByMigration ==
  [][/\ backupSchedule' # backupSchedule => \E p \in Triggers : WritesMigration(p)
     /\ \A p \in Triggers :
          (pass[p].pc = "persist" /\ pass'[p].pc = "idle") =>
            backupSchedule' = backupSchedule]_vars

\* ... what holds: the Configuration changes only in a migration write or in
\* the State write of a pass that another pass overlapped, and the State write
\* of a pass that ran alone leaves it as it is
C36_AloneKeepsConfiguration ==
  [][/\ backupSchedule' # backupSchedule =>
          \E p \in Triggers :
            \/ WritesMigration(p)
            \/ /\ pass[p].pc = "persist"
               /\ pass'[p].pc = "idle"
               /\ hist.overlaps[p] > 0
               /\ backupSchedule' = pass[p].pluginParameters.backupSchedule
     /\ \A p \in Triggers :
          (pass[p].pc = "persist" /\ pass'[p].pc = "idle" /\ hist.overlaps[p] = 0) =>
            backupSchedule' = backupSchedule
     /\ \A p \in Triggers :
          (pass[p].pc = "migrate" /\ ~pass[p].requiresMigration) =>
            pass'[p].pc = "migrate"]_vars

\* a State write is about to replace the Configuration another pass migrated
C36_WitnessOverlap ==
  \E p \in Triggers :
    /\ pass[p].pc = "persist"
    /\ pass[p].pluginId # ""
    /\ Len(pass[p].cadences) > 0
    /\ pass[p].pluginParameters.backupSchedule # backupSchedule

\* the fallback timezones and instants of a later normalization
LaterFallbacks == ValidTimezones \cup {InvalidTimezone}

LaterNows == 0 .. (MaxTick + 1)

\* normalizing the value returns it as it is, with nothing to migrate
Settled(value) ==
  \A fallback \in LaterFallbacks : \A t \in LaterNows :
    normalizeBackupScheduleConfig(value, fallback, t)
      = [config |-> value, requiresMigration |-> FALSE]

\* C37: normalization is idempotent: normalizing a configuration that
\* normalization itself produced returns the same configuration with
\* requiresMigration = false, so after one pass has written the migrated
\* configuration, later passes perform no further configuration write.
C37_NormalizationIsIdempotent == Normalized => Settled(probe.out.config)

\* a malformed stored object was normalized into another configuration, with
\* a migration to write
C37_Witness ==
  /\ Normalized
  /\ Malformed(probe.value)
  /\ probe.out.requiresMigration
  /\ probe.out.config # probe.value
  /\ probe.now = 1

\* ... in the passes: a migration writes a configuration that normalizes to
\* itself, every later write leaves such a configuration in place, and a pass
\* that starts on it has nothing to migrate
C37_NoMigrationAfterMigration ==
  [][/\ \A p \in Triggers : WritesMigration(p) => Settled(backupSchedule')
     /\ (isObject(backupSchedule) /\ Settled(backupSchedule)) =>
          /\ Settled(backupSchedule')
          /\ \A p \in Triggers :
               pass[p].pc = "idle" =>
                 /\ pass'[p].pc # "migrate"
                 /\ ~pass'[p].requiresMigration]_vars

\* a pass starts on the configuration an earlier pass migrated
C37_WitnessLaterPass ==
  \E p \in Triggers :
    /\ pass[p].pc = "list"
    /\ ~pass[p].requiresMigration
    /\ pass[p].scheduleConfig = backupSchedule
    /\ backupSchedule.updatedAt = 0
    /\ backupSchedule.anchorLocalDate = [year |-> 2026, month |-> 2, day |-> 26]
    /\ pass[p].now > 0

\* the ISO week of the UTC date of an instant: the week of the year of its
\* Thursday, weeks running from Monday to Sunday
IsoWeekOf(t) ==
  LET n         == DaysFromCivil(EpochDate.year, EpochDate.month, EpochDate.day)
                     + t \div TicksPerDay
      sinceMon  == (n + 3) % 7
      thursday  == n - sinceMon + 3
      year      == CivilFromDays(thursday).year
  IN [year |-> year, week |-> (thursday - DaysFromCivil(year, 1, 1)) \div 7 + 1]

\* the per-cadence map of the State holds a valid date for the cadence
HasValidEntry(scheduleState, cadence) ==
  /\ cadence \in DOMAIN scheduleState.lastRunLocalDateByCadence
  /\ IsCalendarDate(scheduleState.lastRunLocalDateByCadence[cadence])

\* C38: the legacy fields are consulted only when the per-cadence map has no
\* valid lastRunLocalDate for the cadence: then dailyLastRunDate stands in for
\* the daily cadence, and a weeklyLastRunKey equal to the UTC ISO week of now
\* makes the weekly cadence count as already run today (not due on any day of
\* that ISO week); a valid per-cadence map entry always takes precedence over
\* the legacy fields.
C38_LegacyFieldsOnlyAsFallback ==
  (probe.fn = "getLastRunLocalDateForCadence" /\ probe.done) =>
    LET state == probe.scheduleState
        today == CivilFromDays(DaysFromCivil(EpochDate.year, EpochDate.month, EpochDate.day)
                                 + (probe.now + probe.timezone) \div TicksPerDay)
    IN IF HasValidEntry(state, probe.cadence)
         THEN probe.out.lastRun = state.lastRunLocalDateByCadence[probe.cadence]
       ELSE IF probe.cadence = "daily"
         THEN probe.out.lastRun = (IF IsCalendarDate(state.dailyLastRunDate)
                                     THEN state.dailyLastRunDate ELSE NoDate)
       ELSE IF probe.cadence = "weekly" /\ state.weeklyLastRunKey = IsoWeekOf(probe.now)
         THEN probe.out.lastRun = today /\ ~probe.out.due
       ELSE probe.out.lastRun = NoDate

\* on Friday 2026-02-27, a scheduled date of the weekly cadence, the State
\* holds no valid weekly entry and the key of the current ISO week: the weekly
\* cadence is not due
C38_Witness ==
  /\ probe.fn = "getLastRunLocalDateForCadence"
  /\ probe.done
  /\ probe.cadence = "weekly"
  /\ probe.now = 1
  /\ probe.timezone = 0
  /\ ~HasValidEntry(probe.scheduleState, "weekly")
  /\ probe.scheduleState.weeklyLastRunKey = [year |-> 2026, week |-> 9]
  /\ probe.out.lastRun = EpochDate
  /\ ~probe.out.due

\* a valid entry of the map is returned although both legacy fields are set
C38_WitnessPrecedence ==
  /\ probe.fn = "getLastRunLocalDateForCadence"
  /\ probe.done
  /\ probe.cadence = "daily"
  /\ probe.scheduleState.dailyLastRunDate = EpochDate
  /\ probe.out.lastRun = [year |-> 2026, month |-> 2, day |-> 26]
  /\ probe.out.due

\* with the key of another week the weekly cadence is due on its scheduled date
C38_WitnessOtherWeek ==
  /\ probe.fn = "getLastRunLocalDateForCadence"
  /\ probe.done
  /\ probe.cadence = "weekly"
  /\ probe.scheduleState.weeklyLastRunKey = [year |-> 2026, week |-> 10]
  /\ probe.out.lastRun = NoDate
  /\ probe.out.due

RECURSIVE DaysLater(_, _)
\* the date n days after a date, stepping a day at a time
DaysLater(date, n) == IF n = 0 THEN date ELSE DaysLater(DayAfter(date), n - 1)

\* the due date of the monthly cadence in the calendar month after the date's
FollowingMonthlyDueDate(anchor, date) ==
  LET first == IF date.month = 12
                 THEN [year |-> date.year + 1, month |-> 1, day |-> 1]
                 ELSE [year |-> date.year, month |-> date.month + 1, day |-> 1]
      last  == LastDayOfMonth(first)
  IN [first EXCEPT !.day = IF anchor.day < last THEN anchor.day ELSE last]

\* C39: when lastRunDate equals currentDate and currentDate is itself a
\* scheduled date of the cadence, nextDueDate is exactly one interval later:
\* currentDate + 1 day for daily, + 7 days for weekly, + 14 days for biweekly,
\* and the clamped anchor day of the next calendar month for monthly.
C39_NextDueOneIntervalAfterRun ==
  (/\ probe.fn = "getNextDueLocalDate"
   /\ probe.done
   /\ probe.lastRunLocalDate = probe.currentLocalDate
   /\ OnDueDate(probe.cadence, probe.anchorLocalDate, probe.currentLocalDate)) =>
    probe.out =
      CASE probe.cadence = "daily"    -> DaysLater(probe.currentLocalDate, 1)
        [] probe.cadence = "weekly"   -> DaysLater(probe.currentLocalDate, 7)
        [] probe.cadence = "biweekly" -> DaysLater(probe.currentLocalDate, 14)
        [] probe.cadence = "monthly"  ->
             FollowingMonthlyDueDate(probe.anchorLocalDate, probe.currentLocalDate)

\* the monthly cadence anchored on 2025-12-31 ran on its due date 2026-01-31:
\* the next due date is 2026-02-28
C39_Witness ==
  /\ probe.fn = "getNextDueLocalDate"
  /\ probe.done
  /\ probe.cadence = "monthly"
  /\ probe.anchorLocalDate = [year |-> 2025, month |-> 12, day |-> 31]
  /\ probe.currentLocalDate = [year |-> 2026, month |-> 1, day |-> 31]
  /\ probe.lastRunLocalDate = probe.currentLocalDate
  /\ probe.out = [year |-> 2026, month |-> 2, day |-> 28]

\* the weekly cadence ran on a due date after a year boundary
C39_WitnessWeekly ==
  /\ probe.fn = "getNextDueLocalDate"
  /\ probe.done
  /\ probe.cadence = "weekly"
  /\ probe.anchorLocalDate = [year |-> 2023, month |-> 12, day |-> 31]
  /\ probe.currentLocalDate = [year |-> 2024, month |-> 2, day |-> 25]
  /\ probe.lastRunLocalDate = probe.currentLocalDate
  /\ probe.out = [year |-> 2024, month |-> 3, day |-> 3]

\* 32-bit FNV-1a over four bytes, least significant first: a step xors the
\* character into the low byte and multiplies by 0x01000193, whose bytes are
\* 0x93, 0x01, 0x00, 0x01, dropping the carry out of the fourth byte
FnvStep(bytes, char) ==
  LET b0 == BitXor(bytes[1], char)
      r0 == b0 * 147
      r1 == bytes[2] * 147 + b0 + r0 \div 256
      r2 == bytes[3] * 147 + bytes[2] + r1 \div 256
      r3 == bytes[4] * 147 + bytes[3] + b0 + r2 \div 256
  IN <<r0 % 256, r1 % 256, r2 % 256, r3 % 256>>

RECURSIVE FnvBytes(_, _, _)
FnvBytes(bytes, input, index) ==
  IF index > Len(input) THEN bytes
  ELSE LET next == FnvStep(bytes, input[index])
       IN IF \A j \in 1 .. 4 : next[j] < 256
            THEN FnvBytes(next, input, index + 1)
            ELSE bytes

\* the unsigned value of the hash of the seed, modulo n
UnsignedHashModulo(scope, apiToken, n) ==
  LET input == DISTRIBUTION_HASH_SALT \o <<58>> \o CharCodes(scope) \o <<58>>
                 \o CharCodes(apiToken)
      bytes == FnvBytes(<<197, 157, 28, 129>>, input, 1)
  IN ((((((bytes[4] % n) * 256 + bytes[3]) % n) * 256 + bytes[2]) % n) * 256
         + bytes[1]) % n

\* C40: for every identity string and scope, the 32-bit FNV-1a hash is taken
\* as an unsigned value, so slotHourUtc is always in 0..23, slotWeekdayUtc is
\* null for the daily scope and in 0..6 for the weekly scope, and the weekly
\* slot decomposes as hour = h % 24 and weekday = floor(h / 24) with
\* h = hash % 168.
C40_UnsignedHashGivesSlotInRange ==
  (probe.fn = "getDistributedScheduleWindow" /\ probe.done) =>
    \A j \in DOMAIN probe.out :
      LET window == probe.out[j]
          h      == UnsignedHashModulo(probe.scope, probe.apiToken, 168)
      IN /\ window.slotHourUtc \in 0 .. 23
         /\ IF probe.scope = "daily"
              THEN /\ window.slotWeekdayUtc = NoWeekday
                   /\ window.slotHourUtc
                        = UnsignedHashModulo(probe.scope, probe.apiToken, 24)
              ELSE /\ window.slotWeekdayUtc \in 0 .. 6
                   /\ window.slotHourUtc = h % 24
                   /\ window.slotWeekdayUtc = h \div 24

\* the weekly window of "test-token", whose hash 0x8cf4dd65 has its top bit
\* set: 2364857701 % 168 = 157, hour 13 of weekday 6
C40_Witness ==
  /\ probe.fn = "getDistributedScheduleWindow"
  /\ probe.done
  /\ probe.scope = "weekly"
  /\ probe.apiToken = "test-token"
  /\ hashString(buildDistributionSeed("weekly", "test-token")) = [hi |-> 36084, lo |-> 56677]
  /\ probe.out[1].slotHourUtc = 13
  /\ probe.out[1].slotWeekdayUtc = 6

\* the daily window of "test-token", hash 0xdee46ef7: 3739512567 % 24 = 15
C40_WitnessDaily ==
  /\ probe.fn = "getDistributedScheduleWindow"
  /\ probe.done
  /\ probe.scope = "daily"
  /\ probe.apiToken = "test-token"
  /\ probe.out[1].slotHourUtc = 15
  /\ probe.out[1].slotWeekdayUtc = NoWeekday

====
